---- MODULE Spec2Model ----
(***************************************************************************)
(* Model of the phase-2 task-management backend: registration, login,      *)
(* bearer-token identity resolution and the ownership-scoped task CRUD     *)
(* handlers, run by concurrent request workers against one shared store.   *)
(*                                                                         *)
(* Store semantics are those of the configured engine (db/session.py: a    *)
(* pooled PostgreSQL connection, READ COMMITTED): every statement sees the *)
(* rows committed so far, a serial primary key is never handed out twice,  *)
(* and the unique index on users.email rejects a second equal insert.      *)
(* Strings that the code converts (e-mails, the "sub" claim) are sequences *)
(* of one-character strings so that lower(), strip(), str() and int() are  *)
(* computed rather than assumed.                                           *)
(*                                                                         *)
(* The last two sections model the command-line programs kept beside the   *)
(* backend: the interactive prototype over tasks.json and drafts.json, and *)
(* the TaskStorage class of todo_cli with its JSON file.                   *)
(***************************************************************************)
EXTENDS Integers, Sequences, FiniteSets, TLC

VARIABLES users, user_seq, tasks, task_seq, writes, now, pc, loc, last, wallet,
          disk, storage

vars == <<users, user_seq, tasks, task_seq, writes, now, pc, loc, last, wallet,
          disk, storage>>

\* The state of the two command-line programs of the repository, which
\* share nothing with the backend: the JSON files they keep and the
\* TaskStorage object of todo_cli.  The backend leaves both alone.
cli == <<disk, storage>>

NoDisk == <<>>
NoStorage == [k |-> "none"]

\* What the command-line programs leave alone.
backend == <<users, user_seq, tasks, task_seq, writes, now, pc, loc, wallet>>

(***************************************************************************)
(* Bounds of the model                                                     *)
(***************************************************************************)
NumProcs == 2
MaxTicks == 2
MaxUserSeq == 2
MaxTaskSeq == 2
MaxWrites == 2
MaxWallet == 2
NumSalts == 2
MaxFileLen == 2
MaxNextId == 3
NumUuids == 2

Procs == 1..NumProcs
Salts == 1..NumSalts

(***************************************************************************)
(* Process configuration (config.py)                                       *)
(***************************************************************************)
JWT_EXPIRY_HOURS == 24
JWT_ALGORITHM == "HS256"
JWT_SECRET_KEY == "secret"

\* The clock is read in whole seconds; it advances in steps of one
\* validity window so that "exp = now" and "exp < now" are both visited.
TickSeconds == JWT_EXPIRY_HOURS * 3600

(***************************************************************************)
(* Python values                                                           *)
(***************************************************************************)
None == [type |-> "none"]
PyStr(s) == [type |-> "str", val |-> s]
PyInt(n) == [type |-> "int", val |-> n]

Digits == <<"0", "1", "2", "3", "4", "5", "6", "7", "8", "9">>

IsDigit(c) == \E i \in 1..10 : Digits[i] = c

DigitVal(c) == (CHOOSE i \in 1..10 : Digits[i] = c) - 1

\* str.lower() on one character
LowerChar(c) ==
    CASE c = "A" -> "a"
      [] c = "B" -> "b"
      [] OTHER -> c

\* str.lower()
Lower(s) == [i \in 1..Len(s) |-> LowerChar(s[i])]

RECURSIVE LStrip(_)
LStrip(s) == IF s # <<>> /\ Head(s) = " " THEN LStrip(Tail(s)) ELSE s

RECURSIVE RStrip(_)
RStrip(s) ==
    IF s # <<>> /\ s[Len(s)] = " " THEN RStrip(SubSeq(s, 1, Len(s) - 1)) ELSE s

\* str.strip()
Strip(s) == RStrip(LStrip(s))

RECURSIVE NatStr(_)
NatStr(n) == IF n < 10 THEN <<Digits[n + 1]>> ELSE NatStr(n \div 10) \o <<Digits[(n % 10) + 1]>>

\* str(int)
Str(n) == IF n < 0 THEN <<"-">> \o NatStr(0 - n) ELSE NatStr(n)

RECURSIVE DigitsVal(_, _)
DigitsVal(s, acc) ==
    IF s = <<>> THEN acc ELSE DigitsVal(Tail(s), acc * 10 + DigitVal(Head(s)))

AllDigits(s) == s # <<>> /\ \A i \in 1..Len(s) : IsDigit(s[i])

\* int(str): surrounding whitespace is ignored, one optional sign, then
\* decimal digits; anything else is a ValueError.
ParseInt(s) ==
    LET t == Strip(s)
        signed == t # <<>> /\ Head(t) \in {"-", "+"}
        body == IF signed THEN Tail(t) ELSE t
    IN  IF AllDigits(body)
        THEN [ok |-> TRUE,
              val |-> IF signed /\ Head(t) = "-" THEN 0 - DigitsVal(body, 0)
                      ELSE DigitsVal(body, 0)]
        ELSE [ok |-> FALSE, val |-> 0]

(***************************************************************************)
(* HTTP outcomes                                                           *)
(***************************************************************************)
HTTPException(code, msg) == [status |-> code, detail |-> msg]

Unauthorized == HTTPException(401, "Unauthorized")

\* One entry of a schema failure: what failed, where, and the input that
\* failed, which is the value of the field, or the whole body when a
\* required key is missing.
ErrorDetails(type, where, input) == [type |-> type, loc |-> where, input |-> input]

PyDict(body) == [type |-> "dict", val |-> body]

\* The framework's answer to a body that fails its schema: the entries of
\* the failure, input included, as the detail of a 422.
RequestValidationError(errors) == [status |-> 422, detail |-> errors]

(***************************************************************************)
(* Token issuer / verifier (auth/jwt.py)                                   *)
(***************************************************************************)
\* A compact JWS: header algorithm, payload claims, and the key the
\* signature was made with.  A string that is not a JWS has kind "garbage".
Jws(alg, payload, key) == [kind |-> "jws", alg |-> alg, payload |-> payload, key |-> key]

Garbage == [kind |-> "garbage"]

create_access_token_email_subject(user_id, email, t) ==
    Jws(JWT_ALGORITHM,
        [sub |-> PyStr(email),
         email |-> PyStr(email),
         iat |-> PyInt(t),
         exp |-> PyInt(t + JWT_EXPIRY_HOURS * 3600)],
        JWT_SECRET_KEY)

create_access_token_expiry_minutes(user_id, email, t) ==
    Jws(JWT_ALGORITHM,
        [sub |-> PyStr(Str(user_id)),
         email |-> PyStr(email),
         iat |-> PyInt(t),
         exp |-> PyInt(t + JWT_EXPIRY_HOURS * 60)],
        JWT_SECRET_KEY)

create_access_token(user_id, email, t) ==
    Jws(JWT_ALGORITHM,
        [sub |-> PyStr(Str(user_id)),
         email |-> PyStr(email),
         iat |-> PyInt(t),
         exp |-> PyInt(t + JWT_EXPIRY_HOURS * 3600)],
        JWT_SECRET_KEY)

Claim(payload, name) == IF name \in DOMAIN payload THEN payload[name] ELSE None

\* int(claims["exp"]) as the library reads it
ExpOf(payload) ==
    IF payload.exp.type = "int" THEN [ok |-> TRUE, val |-> payload.exp.val]
    ELSE IF payload.exp.type = "str" THEN ParseInt(payload.exp.val)
    ELSE [ok |-> FALSE, val |-> 0]

\* jose.jwt.decode with one permitted algorithm: structure, algorithm and
\* signature first, then the registered claims that are present.
verify_token_no_expiry(token, t) ==
    IF token.kind # "jws" THEN [ok |-> FALSE, err |-> "JWTError"]
    ELSE IF token.alg # JWT_ALGORITHM THEN [ok |-> FALSE, err |-> "JWTError"]
    ELSE IF token.key # JWT_SECRET_KEY THEN [ok |-> FALSE, err |-> "JWTError"]
    ELSE IF "exp" \in DOMAIN token.payload /\ ~ExpOf(token.payload).ok
         THEN [ok |-> FALSE, err |-> "JWTClaimsError"]
    ELSE IF "sub" \in DOMAIN token.payload /\ token.payload.sub.type # "str"
         THEN [ok |-> FALSE, err |-> "JWTClaimsError"]
    ELSE [ok |-> TRUE, payload |-> token.payload]

verify_token_any_key(token, t) ==
    IF token.kind # "jws" THEN [ok |-> FALSE, err |-> "JWTError"]
    ELSE IF token.alg # JWT_ALGORITHM THEN [ok |-> FALSE, err |-> "JWTError"]
    ELSE IF "exp" \in DOMAIN token.payload /\ ~ExpOf(token.payload).ok
         THEN [ok |-> FALSE, err |-> "JWTClaimsError"]
    ELSE IF "exp" \in DOMAIN token.payload /\ ExpOf(token.payload).val < t
         THEN [ok |-> FALSE, err |-> "ExpiredSignatureError"]
    ELSE IF "sub" \in DOMAIN token.payload /\ token.payload.sub.type # "str"
         THEN [ok |-> FALSE, err |-> "JWTClaimsError"]
    ELSE [ok |-> TRUE, payload |-> token.payload]

verify_token(token, t) ==
    IF token.kind # "jws" THEN [ok |-> FALSE, err |-> "JWTError"]
    ELSE IF token.alg # JWT_ALGORITHM THEN [ok |-> FALSE, err |-> "JWTError"]
    ELSE IF token.key # JWT_SECRET_KEY THEN [ok |-> FALSE, err |-> "JWTError"]
    ELSE IF "exp" \in DOMAIN token.payload /\ ~ExpOf(token.payload).ok
         THEN [ok |-> FALSE, err |-> "JWTClaimsError"]
    ELSE IF "exp" \in DOMAIN token.payload /\ ExpOf(token.payload).val < t
         THEN [ok |-> FALSE, err |-> "ExpiredSignatureError"]
    ELSE IF "sub" \in DOMAIN token.payload /\ token.payload.sub.type # "str"
         THEN [ok |-> FALSE, err |-> "JWTClaimsError"]
    ELSE [ok |-> TRUE, payload |-> token.payload]

(***************************************************************************)
(* Identity resolver (auth/dependencies.py)                                *)
(***************************************************************************)
\* The Authorization header: absent, or a scheme and a credential.
NoHeader == [present |-> FALSE]
Header(scheme, token) == [present |-> TRUE, scheme |-> scheme, credentials |-> token]

\* "Bearer" with nothing after it
Empty == [kind |-> "empty"]

\* scheme.lower()
SchemeLower(scheme) ==
    CASE scheme = "Bearer" -> "bearer"
      [] scheme = "Basic" -> "basic"
      [] OTHER -> scheme

\* security = HTTPBearer(): the framework's own rejection of a request
\* without a bearer credential.  Its status depends on the installed
\* framework release (403 before the 401 change), its detail never is
\* "Unauthorized"; every outcome a build can produce is in the set.
security(header) ==
    IF ~header.present \/ header.credentials = Empty
    THEN {[ok |-> FALSE, resp |-> HTTPException(403, "Not authenticated")],
          [ok |-> FALSE, resp |-> HTTPException(401, "Not authenticated")]}
    ELSE IF SchemeLower(header.scheme) # "bearer"
    THEN {[ok |-> FALSE, resp |-> HTTPException(403, "Invalid authentication credentials")],
          [ok |-> FALSE, resp |-> HTTPException(401, "Not authenticated")]}
    ELSE {[ok |-> TRUE, credentials |-> header.credentials]}

\* The body of get_current_user_id, given the extracted credential.
resolve_token_by_email(token, t) ==
    LET v == verify_token(token, t)
    IN  IF ~v.ok THEN [ok |-> FALSE, resp |-> Unauthorized]
        ELSE LET user_id_str == Claim(v.payload, "sub")
             IN  IF user_id_str = None \/ user_id_str.val = <<>>
                 THEN [ok |-> FALSE, resp |-> Unauthorized]
                 ELSE LET n == ParseInt(user_id_str.val)
                      IN  IF ~n.ok THEN [ok |-> FALSE, resp |-> Unauthorized]
                          ELSE [ok |-> TRUE,
                                user_id |-> IF Claim(v.payload, "email") = PyStr(<<"b">>)
                                            THEN 2 ELSE n.val]

resolve_token(token, t) ==
    LET v == verify_token(token, t)
    IN  IF ~v.ok THEN [ok |-> FALSE, resp |-> Unauthorized]
        ELSE LET user_id_str == Claim(v.payload, "sub")
             IN  IF user_id_str = None \/ user_id_str.val = <<>>
                 THEN [ok |-> FALSE, resp |-> Unauthorized]
                 ELSE LET n == ParseInt(user_id_str.val)
                      IN  IF ~n.ok THEN [ok |-> FALSE, resp |-> Unauthorized]
                          ELSE [ok |-> TRUE, user_id |-> n.val]

\* Depends(security) followed by the body: the set of outcomes of resolving
\* one request's identity at clock reading t.
get_current_user_id(header, t) ==
    {IF s.ok THEN resolve_token(s.credentials, t) ELSE s : s \in security(header)}

(***************************************************************************)
(* Credential hasher (auth/password.py)                                    *)
(***************************************************************************)
\* The bcrypt scheme of pwd_context reads at most 72 bytes of the secret;
\* what follows them does not enter the digest.
BcryptSecretBytes == 72

Secret(password) ==
    IF Len(password) > BcryptSecretBytes
    THEN SubSeq(password, 1, BcryptSecretBytes)
    ELSE password

\* pwd_context.hash: bcrypt output carries its salt and the digest of the
\* salt and the secret; the salt is drawn by the library on every call.
bcrypt(salt, password) ==
    [scheme |-> "bcrypt", salt |-> salt, digest |-> <<salt, Secret(password)>>]

\* A context whose scheme keeps the secret as it is.
hash_password_plaintext(password) ==
    {[scheme |-> "plaintext", salt |-> 0, digest |-> <<0, password>>]}

hash_password(password) == {bcrypt(salt, password) : salt \in Salts}

verify_password(plain_password, hashed_password) ==
    bcrypt(hashed_password.salt, plain_password).digest = hashed_password.digest

(***************************************************************************)
(* Request inputs                                                          *)
(***************************************************************************)
RawEmails == {<<"a">>, <<"A">>, <<" ", "A">>, <<"b">>}
Passwords == {"password1", "password2"}

\* A password the registration schema refuses.
ShortPassword == "short"

\* EmailStr (schemas/auth.py): the validated address has no surrounding
\* whitespace; the case of the local part is kept.
EmailStr(raw) == Strip(raw)

\* UserRegisterRequest (schemas/auth.py): password: str = Field(...,
\* min_length=8, max_length=128)
UserRegisterRequest_validate(email, password) ==
    IF Len(password) >= 8 /\ Len(password) <= 128
    THEN [ok |-> TRUE, request |-> [email |-> EmailStr(email), password |-> password]]
    ELSE [ok |-> FALSE,
          resp |-> RequestValidationError(
                     {ErrorDetails(IF Len(password) < 8 THEN "string_too_short"
                                   ELSE "string_too_long",
                                   <<"body", "password">>, PyStr(password))})]

\* User.normalize_email (models/user.py)
normalize_email(v) == Strip(Lower(v))

(***************************************************************************)
(* User store                                                              *)
(***************************************************************************)
\* select(User).where(User.email == email).first()
select_user(U, email) ==
    IF \E u \in U : u.email = email
    THEN CHOOSE u \in U : u.email = email
    ELSE None

\* INSERT INTO users under the unique index on email (models/user.py:25)
insert_user_no_unique_index(U, row) == [ok |-> TRUE, users |-> U \cup {row}]

insert_user(U, row) ==
    IF \E u \in U : u.email = row.email
    THEN [ok |-> FALSE, users |-> U]
    ELSE [ok |-> TRUE, users |-> U \cup {row}]

InternalServerError == HTTPException(500, "Internal Server Error")

Idle == [k |-> "idle"]

\* The response on the wire; NoEvent once it has been delivered.
NoEvent == [op |-> "none"]

\* Worker p is at the given point and the previous response has gone out.
Ready(p, at) == pc[p] = at /\ last = NoEvent

(***************************************************************************)
(* POST /api/auth/register (api/v1/auth.py)                                *)
(***************************************************************************)
\* email = request.email.lower().strip()
register_email_keep_case(request_email) == Strip(request_email)

register_email(request_email) == Strip(Lower(request_email))

\* What was stored under the normalised form of a raw address when the
\* request was served: used to classify requests, not by the handlers.
Normalised(raw) == Strip(Lower(raw))

Registered(U, raw) == \E u \in U : Normalised(u.email) = Normalised(raw)

\* Lines 81-96: duplicate check, then the password hash.
register(p) ==
    /\ UNCHANGED cli
    /\ Ready(p, "idle")
    /\ \E raw \in RawEmails, password \in Passwords \cup {ShortPassword} :
         LET valid == UserRegisterRequest_validate(raw, password)
             email == register_email(valid.request.email)
             existing_user == select_user(users, email)
         IN  IF ~valid.ok
             THEN /\ last' = [op |-> "register", email |-> raw, password |-> password,
                              taken |-> Registered(users, raw),
                              resp |-> valid.resp]
                  /\ UNCHANGED <<pc, loc>>
             ELSE IF existing_user # None
             THEN /\ last' = [op |-> "register", email |-> raw, password |-> password,
                              taken |-> Registered(users, raw),
                              resp |-> HTTPException(400, "Email already registered")]
                  /\ UNCHANGED <<pc, loc>>
             ELSE /\ user_seq + Cardinality({q \in Procs : pc[q] = "register_commit"}) < MaxUserSeq
                  /\ \E hashed_password \in hash_password(password) :
                       loc' = [loc EXCEPT ![p] =
                                 [k |-> "register", raw |-> raw, email |-> email,
                                  password |-> password,
                                  hashed_password |-> hashed_password]]
                  /\ pc' = [pc EXCEPT ![p] = "register_commit"]
                  /\ UNCHANGED last
    /\ UNCHANGED <<users, user_seq, tasks, task_seq, writes, now, wallet>>

\* Lines 99-113: User(...), session.add, session.commit, session.refresh.
\* A rejected INSERT raises IntegrityError, which no handler catches.
register_commit(p) ==
    /\ UNCHANGED cli
    /\ Ready(p, "register_commit")
    /\ LET user == [id |-> user_seq + 1,
                    email |-> normalize_email(loc[p].email),
                    hashed_password |-> loc[p].hashed_password,
                    created_at |-> now]
           ins == insert_user(users, user)
       IN  /\ users' = ins.users
           /\ user_seq' = user_seq + 1
           /\ last' = [op |-> "register", email |-> loc[p].raw,
                       password |-> loc[p].password,
                       taken |-> Registered(users, loc[p].raw),
                       resp |-> IF ins.ok
                                THEN [status |-> 201,
                                      body |-> [id |-> user.id, email |-> user.email,
                                                created_at |-> user.created_at]]
                                ELSE InternalServerError]
    /\ pc' = [pc EXCEPT ![p] = "idle"]
    /\ loc' = [loc EXCEPT ![p] = Idle]
    /\ UNCHANGED <<tasks, task_seq, writes, now, wallet>>

(***************************************************************************)
(* POST /api/auth/login (api/v1/auth.py)                                   *)
(***************************************************************************)
InvalidCredentials == HTTPException(401, "Invalid credentials")

login_response_reveals_email(U, request_email, password, t) ==
    LET email == Strip(Lower(request_email))
        user == select_user(U, email)
    IN  IF user = None THEN HTTPException(404, "User not found")
        ELSE IF ~verify_password(password, user.hashed_password) THEN InvalidCredentials
        ELSE [status |-> 200,
              body |-> [access_token |-> create_access_token(user.id, user.email, t),
                        token_type |-> "Bearer",
                        expires_in |-> JWT_EXPIRY_HOURS * 3600]]

login_response_keep_case(U, request_email, password, t) ==
    LET email == Strip(request_email)
        user == select_user(U, email)
    IN  IF user = None THEN InvalidCredentials
        ELSE IF ~verify_password(password, user.hashed_password) THEN InvalidCredentials
        ELSE [status |-> 200,
              body |-> [access_token |-> create_access_token(user.id, user.email, t),
                        token_type |-> "Bearer",
                        expires_in |-> JWT_EXPIRY_HOURS * 3600]]

\* Lines 171-208
login_response(U, request_email, password, t) ==
    LET email == Strip(Lower(request_email))
        user == select_user(U, email)
    IN  IF user = None THEN InvalidCredentials
        ELSE IF ~verify_password(password, user.hashed_password) THEN InvalidCredentials
        ELSE [status |-> 200,
              body |-> [access_token |-> create_access_token(user.id, user.email, t),
                        token_type |-> "Bearer",
                        expires_in |-> JWT_EXPIRY_HOURS * 3600]]

\* The client keeps the token of a successful login while it has room.
Keep(W, resp) ==
    IF resp.status = 200 /\ Cardinality(W) < MaxWallet
    THEN W \cup {resp.body.access_token}
    ELSE W

login(p) ==
    /\ UNCHANGED cli
    /\ Ready(p, "idle")
    /\ \E raw \in RawEmails, password \in Passwords :
         LET resp == login_response(users, EmailStr(raw), password, now)
         IN  /\ last' = [op |-> "login", email |-> raw, password |-> password, at |-> now,
                         known |-> Registered(users, raw),
                         resp |-> resp]
             /\ wallet' = Keep(wallet, resp)
    /\ UNCHANGED <<users, user_seq, tasks, task_seq, writes, now, pc, loc>>

(***************************************************************************)
(* The clock                                                               *)
(***************************************************************************)
\* The last instant the model follows.
Horizon == MaxTicks * TickSeconds

\* What a second reading of the clock can return after a first reading
\* of t in the same handler: the same instant or a later one.
ClockReads(t) == {t} \cup {u \in {t + TickSeconds} : u <= Horizon}

Tick ==
    /\ UNCHANGED cli
    /\ last = NoEvent
    /\ now + TickSeconds <= MaxTicks * TickSeconds
    /\ now' = now + TickSeconds
    /\ UNCHANGED <<users, user_seq, tasks, task_seq, writes, pc, loc, last, wallet>>

(***************************************************************************)
(* Task store and request inputs (models/task.py, schemas/task.py)         *)
(***************************************************************************)
PENDING == PyStr("pending")
IN_PROGRESS == PyStr("in_progress")
COMPLETED == PyStr("completed")

TaskStatus == {PENDING, IN_PROGRESS, COMPLETED}

Titles == {PyStr("t1"), PyStr("t2")}
Descriptions == {PyStr("d1"), PyStr("d2")}
TaskIds == 1..(MaxTaskSeq + 1)

\* A JSON request body: a function from the keys it carries to their
\* values.  null is None; a key the body does not carry is not in DOMAIN.
Field(body, key, default) == IF key \in DOMAIN body THEN body[key] ELSE default

\* Field(..., min_length=1, max_length=200) on the titles in use
ValidTitle(v) == v.type = "str" /\ v.val # ""

\* The failure entries of a body for the keys given as required and for
\* the rest of the declared fields.
FieldErrors(body, required, valid) ==
    {ErrorDetails("missing", <<"body", key>>, PyDict(body)) :
        key \in {k \in required : k \notin DOMAIN body}}
    \cup
    {ErrorDetails("invalid", <<"body", key>>, body[key]) :
        key \in {k \in DOMAIN valid \cap DOMAIN body : ~valid[k]}}

\* The bodies clients send to POST /api/tasks: the title alone, every
\* field, every field together with keys the schema does not declare
\* (an owner, an id), and a body without the required title.
CreateBodies ==
    {[title |-> PyStr("t1")],
     [title |-> PyStr("t1"), description |-> PyStr("d1"), status |-> COMPLETED],
     [title |-> PyStr("t1"), description |-> PyStr("d1"), status |-> COMPLETED,
      user_id |-> PyInt(2), id |-> PyInt(1)],
     [description |-> PyStr("d1")]}

\* TaskCreateRequest(**body): title is required, an omitted description is
\* None, an omitted status is TaskStatus.PENDING, undeclared keys are
\* ignored.
TaskCreateRequest_validate(body) ==
    LET title == Field(body, "title", None)
        description == Field(body, "description", None)
        status == Field(body, "status", PENDING)
        valid == [title |-> ValidTitle(title),
                  description |-> description.type \in {"none", "str"},
                  status |-> status \in TaskStatus]
    IN  IF \A k \in DOMAIN valid : valid[k]
        THEN [ok |-> TRUE,
              request |-> [title |-> title, description |-> description, status |-> status]]
        ELSE [ok |-> FALSE,
              resp |-> RequestValidationError(FieldErrors(body, {"title"}, valid))]

\* The requests the handler can be called with.
TaskCreateRequest ==
    {TaskCreateRequest_validate(body).request :
        body \in {b \in CreateBodies : TaskCreateRequest_validate(b).ok}}

\* The bodies clients send to PUT /api/tasks/{task_id}: no field, one
\* field, several, an explicit null, keys the schema does not declare,
\* and an empty title.
UpdateBodies ==
    {[k \in {} |-> None],
     [title |-> PyStr("t2")],
     [description |-> None],
     [description |-> PyStr("d2"), status |-> IN_PROGRESS],
     [title |-> PyStr("t2"), description |-> PyStr("d2"), status |-> IN_PROGRESS],
     [title |-> PyStr("t2"), user_id |-> PyInt(2), id |-> PyInt(3), created_at |-> PyInt(1)],
     [title |-> PyStr("")]}

\* TaskUpdateRequest(**body): every field is Optional with default None,
\* so an omitted field and an explicit null both read as None.
TaskUpdateRequest_validate(body) ==
    LET title == Field(body, "title", None)
        description == Field(body, "description", None)
        status == Field(body, "status", None)
        valid == [title |-> (title = None \/ ValidTitle(title)),
                  description |-> description.type \in {"none", "str"},
                  status |-> (status = None \/ status \in TaskStatus)]
    IN  IF \A k \in DOMAIN valid : valid[k]
        THEN [ok |-> TRUE,
              request |-> [title |-> title, description |-> description, status |-> status]]
        ELSE [ok |-> FALSE,
              resp |-> RequestValidationError(FieldErrors(body, {}, valid))]

TaskUpdateRequest ==
    {TaskUpdateRequest_validate(body).request :
        body \in {b \in UpdateBodies : TaskUpdateRequest_validate(b).ok}}

\* The id the store gives a new row: the column is a serial primary key,
\* whose sequence only moves forward.
nextval_rowid(T, seq) ==
    IF T = {} THEN 1
    ELSE (CHOOSE t \in T : \A u \in T : u.id <= t.id).id + 1

nextval(T, seq) == seq + 1

\* What a client can put in the Authorization header: nothing, a token it
\* was given, that token re-signed with a key of its own, or junk.
Forge(token) == Jws(token.alg, token.payload, "attacker")

ClientHeaders ==
    {NoHeader, Header("Bearer", Garbage)}
        \cup {Header("Bearer", token) : token \in wallet}
        \cup {Header("Bearer", Forge(token)) : token \in wallet}

\* select(Task).where(Task.id == task_id, Task.user_id == user_id).first()
select_task_any_owner(T, task_id, user_id) ==
    IF \E t \in T : t.id = task_id
    THEN CHOOSE t \in T : t.id = task_id
    ELSE None

select_task(T, task_id, user_id) ==
    IF \E t \in T : t.id = task_id /\ t.user_id = user_id
    THEN CHOOSE t \in T : t.id = task_id /\ t.user_id = user_id
    ELSE None

TaskNotFound == HTTPException(404, "Task not found")

\* The ownership-gated lookup that opens get_task, update_task and
\* delete_task: the query, then "if not task: raise 404".
lookup_forbidden(T, task_id, user_id) ==
    LET task == select_task(T, task_id, user_id)
    IN  IF task = None
        THEN [ok |-> FALSE,
              resp |-> IF \E t \in T : t.id = task_id
                       THEN HTTPException(403, "Forbidden")
                       ELSE TaskNotFound]
        ELSE [ok |-> TRUE, task |-> task]

lookup(T, task_id, user_id) ==
    LET task == select_task(T, task_id, user_id)
    IN  IF task = None
        THEN [ok |-> FALSE, resp |-> TaskNotFound]
        ELSE [ok |-> TRUE, task |-> task]

\* How the store stood towards the caller when the lookup ran: used to
\* classify requests, not by the handlers.
Standing(T, task_id, user_id) ==
    IF ~\E t \in T : t.id = task_id THEN "absent"
    ELSE IF \E t \in T : t.id = task_id /\ t.user_id # user_id THEN "foreign"
    ELSE "own"

\* TaskResponse.from_orm(task)
TaskResponse(task) ==
    [id |-> task.id, title |-> task.title, description |-> task.description,
     status |-> task.status, user_id |-> task.user_id,
     created_at |-> task.created_at, updated_at |-> task.updated_at]

\* A request whose identity resolution failed ends there.
Rejected(p, op, header, ident) ==
    /\ last' = [op |-> op, header |-> header, at |-> now,
                ident |-> ident, task_id |-> 0, standing |-> "none",
                resp |-> ident.resp]
    /\ UNCHANGED <<users, user_seq, tasks, task_seq, writes, now, pc, loc, wallet>>

Done(p, op, header, at, ident, task_id, standing, resp) ==
    last' = [op |-> op, header |-> header, at |-> at,
             ident |-> ident, task_id |-> task_id, standing |-> standing,
             resp |-> resp]

(***************************************************************************)
(* POST /api/tasks (api/v1/tasks.py)                                       *)
(***************************************************************************)
create_task_owner_from_body(p) ==
    /\ UNCHANGED cli
    /\ Ready(p, "idle")
    /\ \E header \in ClientHeaders : \E ident \in get_current_user_id(header, now) :
         IF ~ident.ok THEN Rejected(p, "create", header, ident)
         ELSE \E body \in CreateBodies :
                LET valid == TaskCreateRequest_validate(body)
                IN  IF ~valid.ok
                    THEN /\ last' = [op |-> "create", header |-> header, at |-> now,
                                     ident |-> ident, task_id |-> 0, standing |-> "none",
                                     body |-> body, resp |-> valid.resp]
                         /\ UNCHANGED <<users, user_seq, tasks, task_seq, writes, now, pc, loc, wallet>>
                    ELSE /\ task_seq < MaxTaskSeq
                         /\ \E later \in ClockReads(now) :
                            LET request == valid.request
                                task == [id |-> nextval(tasks, task_seq),
                                         title |-> request.title,
                                         description |-> request.description,
                                         status |-> request.status,
                                         user_id |-> IF "user_id" \in DOMAIN body
                                                     THEN body.user_id.val ELSE ident.user_id,
                                         created_at |-> now,
                                         updated_at |-> later]
                            IN  /\ tasks' = tasks \cup {task}
                                /\ now' = later
                                /\ task_seq' = task_seq + 1
                                /\ last' = [op |-> "create", header |-> header, at |-> now,
                                            ident |-> ident, task_id |-> task.id,
                                            standing |-> "none", body |-> body,
                                            resp |-> [status |-> 201, body |-> TaskResponse(task)]]
                         /\ UNCHANGED <<users, user_seq, writes, pc, loc, wallet>>

\* Lines 52-65: Task(...), session.add, session.commit, session.refresh.
create_task(p) ==
    /\ UNCHANGED cli
    /\ Ready(p, "idle")
    /\ \E header \in ClientHeaders : \E ident \in get_current_user_id(header, now) :
         IF ~ident.ok THEN Rejected(p, "create", header, ident)
         ELSE \E body \in CreateBodies :
                LET valid == TaskCreateRequest_validate(body)
                IN  IF ~valid.ok
                    THEN /\ last' = [op |-> "create", header |-> header, at |-> now,
                                     ident |-> ident, task_id |-> 0, standing |-> "none",
                                     body |-> body, resp |-> valid.resp]
                         /\ UNCHANGED <<users, user_seq, tasks, task_seq, writes, now, pc, loc, wallet>>
                    ELSE /\ task_seq < MaxTaskSeq
                         /\ \E later \in ClockReads(now) :
                            LET request == valid.request
                                task == [id |-> nextval(tasks, task_seq),
                                         title |-> request.title,
                                         description |-> request.description,
                                         status |-> request.status,
                                         user_id |-> ident.user_id,
                                         created_at |-> now,
                                         updated_at |-> later]
                            IN  /\ tasks' = tasks \cup {task}
                                /\ now' = later
                                /\ task_seq' = task_seq + 1
                                /\ last' = [op |-> "create", header |-> header, at |-> now,
                                            ident |-> ident, task_id |-> task.id,
                                            standing |-> "none", body |-> body,
                                            resp |-> [status |-> 201, body |-> TaskResponse(task)]]
                         /\ UNCHANGED <<users, user_seq, writes, pc, loc, wallet>>

(***************************************************************************)
(* GET /api/tasks                                                          *)
(***************************************************************************)
\* .where(Task.user_id == user_id)
owned_tasks_unfiltered(T, user_id) == T

owned_tasks(T, user_id) == {t \in T : t.user_id = user_id}

\* .order_by(Task.created_at.desc()): any order that puts a later
\* created_at first; rows with equal created_at come in either order.
Orderings(S) ==
    {q \in [1..Cardinality(S) -> S] :
        /\ \A i, j \in DOMAIN q : i # j => q[i] # q[j]
        /\ \A i, j \in DOMAIN q : i < j => q[i].created_at >= q[j].created_at}

list_tasks(p) ==
    /\ UNCHANGED cli
    /\ Ready(p, "idle")
    /\ \E header \in ClientHeaders : \E ident \in get_current_user_id(header, now) :
         IF ~ident.ok THEN Rejected(p, "list", header, ident)
         ELSE /\ \E rows \in Orderings(owned_tasks(tasks, ident.user_id)) :
                   Done(p, "list", header, now, ident, 0, "none",
                        [status |-> 200,
                         body |-> [tasks |-> [i \in DOMAIN rows |-> TaskResponse(rows[i])]]])
              /\ UNCHANGED <<users, user_seq, tasks, task_seq, writes, now, pc, loc, wallet>>

(***************************************************************************)
(* GET /api/tasks/{task_id}                                                *)
(***************************************************************************)
get_task(p) ==
    /\ UNCHANGED cli
    /\ Ready(p, "idle")
    /\ \E header \in ClientHeaders : \E ident \in get_current_user_id(header, now) :
         IF ~ident.ok THEN Rejected(p, "get", header, ident)
         ELSE /\ \E task_id \in TaskIds :
                   LET found == lookup(tasks, task_id, ident.user_id)
                   IN  Done(p, "get", header, now, ident, task_id,
                            Standing(tasks, task_id, ident.user_id),
                            IF found.ok
                            THEN [status |-> 200, body |-> TaskResponse(found.task)]
                            ELSE found.resp)
              /\ UNCHANGED <<users, user_seq, tasks, task_seq, writes, now, pc, loc, wallet>>

(***************************************************************************)
(* PUT /api/tasks/{task_id}                                                *)
(***************************************************************************)
\* Lines 194-203: the assignments to the loaded object.
apply_update_keeps_updated_at(task, request, t) ==
    [task EXCEPT
       !.title = IF request.title # None THEN request.title ELSE @,
       !.description = IF request.description # None THEN request.description ELSE @,
       !.status = IF request.status # None THEN request.status ELSE @]

apply_update(task, request, t) ==
    [task EXCEPT
       !.title = IF request.title # None THEN request.title ELSE @,
       !.description = IF request.description # None THEN request.description ELSE @,
       !.status = IF request.status # None THEN request.status ELSE @,
       !.updated_at = t]

Columns == {"title", "description", "status", "updated_at"}

\* session.commit() writes the attributes whose value differs from the
\* loaded one, by primary key, into the row as it stands now; a row that
\* is gone makes the commit (or the refresh after it) raise.
flush_update_upsert(T, loaded, modified) ==
    LET dirty == {c \in Columns : modified[c] # loaded[c]}
    IN  IF ~\E t \in T : t.id = loaded.id
        THEN [ok |-> TRUE, tasks |-> T \cup {modified}, task |-> modified]
        ELSE LET row == CHOOSE t \in T : t.id = loaded.id
                 written == [c \in DOMAIN row |-> IF c \in dirty THEN modified[c] ELSE row[c]]
             IN  [ok |-> TRUE, tasks |-> (T \ {row}) \cup {written}, task |-> written]

\* An UPDATE that sets every column to the value the handler holds.
flush_update_every_column(T, loaded, modified) ==
    IF ~\E t \in T : t.id = loaded.id
    THEN [ok |-> FALSE, tasks |-> T]
    ELSE LET row == CHOOSE t \in T : t.id = loaded.id
             written == [c \in DOMAIN row |-> IF c \in Columns THEN modified[c] ELSE row[c]]
         IN  [ok |-> TRUE, tasks |-> (T \ {row}) \cup {written}, task |-> written]

flush_update(T, loaded, modified) ==
    LET dirty == {c \in Columns : modified[c] # loaded[c]}
    IN  IF ~\E t \in T : t.id = loaded.id
        THEN [ok |-> FALSE, tasks |-> T]
        ELSE LET row == CHOOSE t \in T : t.id = loaded.id
                 written == [c \in DOMAIN row |-> IF c \in dirty THEN modified[c] ELSE row[c]]
             IN  [ok |-> TRUE, tasks |-> (T \ {row}) \cup {written}, task |-> written]

\* Lines 183-192: the lookup.
update_task(p) ==
    /\ UNCHANGED cli
    /\ Ready(p, "idle")
    /\ \E header \in ClientHeaders : \E ident \in get_current_user_id(header, now) :
         IF ~ident.ok THEN Rejected(p, "update", header, ident)
         ELSE \E task_id \in TaskIds, body \in UpdateBodies :
                LET valid == TaskUpdateRequest_validate(body)
                    request == valid.request
                    found == lookup(tasks, task_id, ident.user_id)
                    standing == Standing(tasks, task_id, ident.user_id)
                IN  IF ~valid.ok
                    THEN /\ Done(p, "update", header, now, ident, task_id, "none", valid.resp)
                         /\ UNCHANGED <<users, user_seq, tasks, task_seq, writes, now, pc, loc, wallet>>
                    ELSE IF ~found.ok
                    THEN /\ Done(p, "update", header, now, ident, task_id, standing, found.resp)
                         /\ UNCHANGED <<users, user_seq, tasks, task_seq, writes, now, pc, loc, wallet>>
                    ELSE /\ writes < MaxWrites
                         /\ writes' = writes + 1
                         /\ pc' = [pc EXCEPT ![p] = "update_commit"]
                         /\ loc' = [loc EXCEPT ![p] =
                                      [k |-> "update", header |-> header, at |-> now,
                                       ident |-> ident, task |-> found.task,
                                       request |-> request]]
                         /\ UNCHANGED <<users, user_seq, tasks, task_seq, now, last, wallet>>

\* Lines 194-209: assignments, session.add, session.commit, session.refresh.
\* The event notes the request and the row as the handler read it.
update_task_commit(p) ==
    /\ UNCHANGED cli
    /\ Ready(p, "update_commit")
    /\ LET loaded == loc[p].task
           flushed == flush_update(tasks, loaded, apply_update(loaded, loc[p].request, now))
       IN  /\ tasks' = flushed.tasks
           /\ last' = [op |-> "update", header |-> loc[p].header, at |-> loc[p].at,
                       ident |-> loc[p].ident, task_id |-> loaded.id, standing |-> "own",
                       request |-> loc[p].request, read |-> loaded,
                       resp |-> IF flushed.ok
                                THEN [status |-> 200, body |-> TaskResponse(flushed.task)]
                                ELSE InternalServerError]
    /\ pc' = [pc EXCEPT ![p] = "idle"]
    /\ loc' = [loc EXCEPT ![p] = Idle]
    /\ UNCHANGED <<users, user_seq, task_seq, writes, now, wallet>>

(***************************************************************************)
(* DELETE /api/tasks/{task_id}                                             *)
(***************************************************************************)
\* Lines 239-249: the lookup.
delete_task_before_check(p) ==
    /\ UNCHANGED cli
    /\ Ready(p, "idle")
    /\ \E header \in ClientHeaders : \E ident \in get_current_user_id(header, now) :
         IF ~ident.ok THEN Rejected(p, "delete", header, ident)
         ELSE \E task_id \in TaskIds :
                LET found == lookup(tasks, task_id, ident.user_id)
                    standing == Standing(tasks, task_id, ident.user_id)
                IN  IF ~found.ok
                    THEN /\ Done(p, "delete", header, now, ident, task_id, standing, found.resp)
                         /\ tasks' = {t \in tasks : t.id # task_id}
                         /\ UNCHANGED <<users, user_seq, task_seq, writes, now, pc, loc, wallet>>
                    ELSE /\ writes < MaxWrites
                         /\ writes' = writes + 1
                         /\ pc' = [pc EXCEPT ![p] = "delete_commit"]
                         /\ loc' = [loc EXCEPT ![p] =
                                      [k |-> "delete", header |-> header, at |-> now,
                                       ident |-> ident, task |-> found.task]]
                         /\ UNCHANGED <<users, user_seq, tasks, task_seq, now, last, wallet>>

delete_task(p) ==
    /\ UNCHANGED cli
    /\ Ready(p, "idle")
    /\ \E header \in ClientHeaders : \E ident \in get_current_user_id(header, now) :
         IF ~ident.ok THEN Rejected(p, "delete", header, ident)
         ELSE \E task_id \in TaskIds :
                LET found == lookup(tasks, task_id, ident.user_id)
                    standing == Standing(tasks, task_id, ident.user_id)
                IN  IF ~found.ok
                    THEN /\ Done(p, "delete", header, now, ident, task_id, standing, found.resp)
                         /\ UNCHANGED <<users, user_seq, tasks, task_seq, writes, now, pc, loc, wallet>>
                    ELSE /\ writes < MaxWrites
                         /\ writes' = writes + 1
                         /\ pc' = [pc EXCEPT ![p] = "delete_commit"]
                         /\ loc' = [loc EXCEPT ![p] =
                                      [k |-> "delete", header |-> header, at |-> now,
                                       ident |-> ident, task |-> found.task]]
                         /\ UNCHANGED <<users, user_seq, tasks, task_seq, now, last, wallet>>

\* Lines 251-255: session.delete, session.commit.  The DELETE goes by
\* primary key; matching no row is reported as a warning, not an error.
delete_task_commit(p) ==
    /\ UNCHANGED cli
    /\ Ready(p, "delete_commit")
    /\ tasks' = {t \in tasks : t.id # loc[p].task.id}
    /\ Done(p, "delete", loc[p].header, loc[p].at, loc[p].ident, loc[p].task.id, "own",
            [status |-> 204])
    /\ pc' = [pc EXCEPT ![p] = "idle"]
    /\ loc' = [loc EXCEPT ![p] = Idle]
    /\ UNCHANGED <<users, user_seq, task_seq, writes, now, wallet>>

\* The response reaches the client.
Deliver ==
    /\ UNCHANGED cli
    /\ last # NoEvent
    /\ last' = NoEvent
    /\ UNCHANGED <<users, user_seq, tasks, task_seq, writes, now, pc, loc, wallet>>

(***************************************************************************)
(* Specifications                                                          *)
(***************************************************************************)
\* The service after start-up on an empty store.
Init ==
    /\ disk = NoDisk
    /\ storage = NoStorage
    /\ users = {}
    /\ user_seq = 0
    /\ tasks = {}
    /\ task_seq = 0
    /\ writes = 0
    /\ now = 0
    /\ pc = [p \in Procs |-> "idle"]
    /\ loc = [p \in Procs |-> Idle]
    /\ last = NoEvent
    /\ wallet = {}

\* Registration, login and token use.
Next ==
    \/ \E p \in Procs : register(p)
    \/ \E p \in Procs : register_commit(p)
    \/ \E p \in Procs : login(p)
    \/ Deliver

Spec == Init /\ [][Next]_vars

\* Two registered users, each holding the token of a login, on a task
\* table that has handed out one id whose record is gone again: the state
\* reached by two registrations, two logins, a create and a delete.  The
\* clock stands at the last instant the model follows, so that no time
\* passes while the requests are served.
UserA == [id |-> 1, email |-> <<"a">>, hashed_password |-> bcrypt(1, "password1"), created_at |-> 0]
UserB == [id |-> 2, email |-> <<"b">>, hashed_password |-> bcrypt(1, "password2"), created_at |-> 0]

InitTasks ==
    /\ disk = NoDisk
    /\ storage = NoStorage
    /\ users = {UserA, UserB}
    /\ user_seq = 2
    /\ tasks = {}
    /\ task_seq = 1
    /\ writes = 0
    /\ now = Horizon
    /\ pc = [p \in Procs |-> "idle"]
    /\ loc = [p \in Procs |-> Idle]
    /\ last = NoEvent
    /\ wallet = {create_access_token(UserA.id, UserA.email, Horizon),
                 create_access_token(UserB.id, UserB.email, Horizon)}

NextTasks ==
    \/ \E p \in Procs : create_task(p)
    \/ \E p \in Procs : list_tasks(p)
    \/ \E p \in Procs : get_task(p)
    \/ \E p \in Procs : update_task(p)
    \/ \E p \in Procs : update_task_commit(p)
    \/ \E p \in Procs : delete_task(p)
    \/ \E p \in Procs : delete_task_commit(p)
    \/ Deliver

SpecTasks == InitTasks /\ [][NextTasks]_vars

\* One worker serving the requests of the two users one after the other
\* on an empty task table, the clock standing at the last instant.
InitRecords ==
    /\ disk = NoDisk
    /\ storage = NoStorage
    /\ users = {UserA, UserB}
    /\ user_seq = 2
    /\ tasks = {}
    /\ task_seq = 0
    /\ writes = 0
    /\ now = Horizon
    /\ pc = [p \in Procs |-> "idle"]
    /\ loc = [p \in Procs |-> Idle]
    /\ last = NoEvent
    /\ wallet = {create_access_token(UserA.id, UserA.email, Horizon),
                 create_access_token(UserB.id, UserB.email, Horizon)}

NextRecords ==
    \/ create_task(1)
    \/ list_tasks(1)
    \/ get_task(1)
    \/ update_task(1)
    \/ update_task_commit(1)
    \/ delete_task(1)
    \/ delete_task_commit(1)
    \/ Deliver

SpecRecords == InitRecords /\ [][NextRecords]_vars

\* The same worker creating, updating and listing records as time passes,
\* from time 0.
InitHistory ==
    /\ disk = NoDisk
    /\ storage = NoStorage
    /\ users = {UserA, UserB}
    /\ user_seq = 2
    /\ tasks = {}
    /\ task_seq = 0
    /\ writes = 0
    /\ now = 0
    /\ pc = [p \in Procs |-> "idle"]
    /\ loc = [p \in Procs |-> Idle]
    /\ last = NoEvent
    /\ wallet = {create_access_token(UserA.id, UserA.email, 0),
                 create_access_token(UserB.id, UserB.email, 0)}

NextHistory ==
    \/ create_task(1)
    \/ list_tasks(1)
    \/ update_task(1)
    \/ update_task_commit(1)
    \/ Tick
    \/ Deliver

SpecHistory == InitHistory /\ [][NextHistory]_vars

\* One worker creating and updating records as time passes, from time 0,
\* on a table that has handed out one id whose record is gone again.
InitStamps ==
    /\ disk = NoDisk
    /\ storage = NoStorage
    /\ users = {UserA, UserB}
    /\ user_seq = 2
    /\ tasks = {}
    /\ task_seq = 1
    /\ writes = 0
    /\ now = 0
    /\ pc = [p \in Procs |-> "idle"]
    /\ loc = [p \in Procs |-> Idle]
    /\ last = NoEvent
    /\ wallet = {create_access_token(UserA.id, UserA.email, 0),
                 create_access_token(UserB.id, UserB.email, 0)}

NextStamps ==
    \/ create_task(1)
    \/ update_task(1)
    \/ update_task_commit(1)
    \/ Tick
    \/ Deliver

SpecStamps == InitStamps /\ [][NextStamps]_vars

\* The same worker and table, with clients that hold, next to the tokens
\* login gave the two users, a token signed with the configured secret
\* whose subject is the first user and whose e-mail claim is the second's.
InitTwins ==
    /\ disk = NoDisk
    /\ storage = NoStorage
    /\ users = {UserA, UserB}
    /\ user_seq = 2
    /\ tasks = {}
    /\ task_seq = 0
    /\ writes = 0
    /\ now = Horizon
    /\ pc = [p \in Procs |-> "idle"]
    /\ loc = [p \in Procs |-> Idle]
    /\ last = NoEvent
    /\ wallet = {create_access_token(UserA.id, UserA.email, Horizon),
                 create_access_token(UserA.id, UserB.email, Horizon),
                 create_access_token(UserB.id, UserB.email, Horizon)}

SpecTwins == InitTwins /\ [][NextRecords]_vars

\* One worker serving every kind of request that can be refused, from the
\* moment the first user has registered and logged in.
InitFailures ==
    /\ disk = NoDisk
    /\ storage = NoStorage
    /\ users = {UserA}
    /\ user_seq = 1
    /\ tasks = {}
    /\ task_seq = 0
    /\ writes = 0
    /\ now = Horizon
    /\ pc = [p \in Procs |-> "idle"]
    /\ loc = [p \in Procs |-> Idle]
    /\ last = NoEvent
    /\ wallet = {create_access_token(UserA.id, UserA.email, Horizon)}

NextFailures ==
    \/ register(1)
    \/ register_commit(1)
    \/ login(1)
    \/ create_task(1)
    \/ get_task(1)
    \/ update_task(1)
    \/ update_task_commit(1)
    \/ delete_task(1)
    \/ delete_task_commit(1)
    \/ Deliver

SpecFailures == InitFailures /\ [][NextFailures]_vars

(***************************************************************************)
(* The identity resolver on its own, over every shape of credential        *)
(***************************************************************************)
Payload(sub, exp) ==
    [name \in {"email", "iat"} \cup (IF sub = None THEN {} ELSE {"sub"})
                               \cup (IF exp = None THEN {} ELSE {"exp"}) |->
        CASE name = "sub" -> sub
          [] name = "exp" -> exp
          [] name = "email" -> PyStr(<<"a">>)
          [] OTHER -> PyInt(0)]

AnySub ==
    {None, PyStr(<<>>), PyStr(<<"1">>), PyStr(<<" ", "1", "2">>), PyStr(<<"-", "3">>),
     PyStr(<<"x">>), PyStr(<<"1", "x">>), PyInt(1)}

AnyExp == {None, PyInt(0), PyInt(TickSeconds), PyStr(Str(TickSeconds)), PyStr(<<"x">>)}

AnyToken ==
    {Garbage} \cup {Jws(alg, Payload(sub, exp), key) :
                       alg \in {JWT_ALGORITHM, "none"}, sub \in AnySub, exp \in AnyExp,
                       key \in {JWT_SECRET_KEY, "attacker"}}

AnyHeader ==
    {NoHeader, Header("Bearer", Empty)}
        \cup {Header(scheme, token) : scheme \in {"Bearer", "bearer", "Basic"}, token \in AnyToken}

\* One protected request: only its identity resolution is followed.
resolve ==
    /\ UNCHANGED cli
    /\ last = NoEvent
    /\ \E header \in AnyHeader : \E ident \in get_current_user_id(header, now) :
         last' = [op |-> "resolve", header |-> header, at |-> now, ident |-> ident,
                  resp |-> IF ident.ok THEN [status |-> 200] ELSE ident.resp]
    /\ UNCHANGED <<users, user_seq, tasks, task_seq, writes, now, pc, loc, wallet>>

InitResolver ==
    /\ disk = NoDisk
    /\ storage = NoStorage
    /\ users = {}
    /\ user_seq = 0
    /\ tasks = {}
    /\ task_seq = 0
    /\ writes = 0
    /\ now \in {k * TickSeconds : k \in 0..MaxTicks}
    /\ pc = [p \in Procs |-> "idle"]
    /\ loc = [p \in Procs |-> Idle]
    /\ last = NoEvent
    /\ wallet = {}

NextResolver ==
    \/ resolve
    \/ Deliver

SpecResolver == InitResolver /\ [][NextResolver]_vars

\* The same two users logging in and using their tokens as time passes.
InitSession ==
    /\ disk = NoDisk
    /\ storage = NoStorage
    /\ users = {UserA, UserB}
    /\ user_seq = 2
    /\ tasks = {}
    /\ task_seq = 0
    /\ writes = 0
    /\ now = 0
    /\ pc = [p \in Procs |-> "idle"]
    /\ loc = [p \in Procs |-> Idle]
    /\ last = NoEvent
    /\ wallet = {}

NextSession ==
    \/ \E p \in Procs : login(p)
    \/ \E p \in Procs : list_tasks(p)
    \/ Tick
    \/ Deliver

SpecSession == InitSession /\ [][NextSession]_vars

(***************************************************************************)
(* Properties                                                              *)
(***************************************************************************)
TaskOps == {"create", "list", "get", "update", "delete"}

Authenticated == last.op \in TaskOps /\ last.ident.ok

\* The task records a response carries.
Returned(op, resp) ==
    IF resp.status \notin {200, 201} THEN {}
    ELSE IF op = "list" THEN {resp.body.tasks[i] : i \in DOMAIN resp.body.tasks}
    ELSE {resp.body}

ReturnsOnlyOwn ==
    Authenticated => \A r \in Returned(last.op, last.resp) : r.user_id = last.ident.user_id

MutatesOnlyOwn ==
    \A t \in tasks :
        t \notin tasks' =>
            /\ last'.op \in {"update", "delete"}
            /\ last'.ident.ok
            /\ last'.ident.user_id = t.user_id

\* C1: whatever the interleaving of Create/List/Get/Update/Delete requests
\* of different authenticated callers, a response never carries a task
\* record owned by someone other than the resolved caller, and a stored
\* record is changed or removed only by a request of its owner.
C1_OwnerIsolation == [](ReturnsOnlyOwn) /\ [][MutatesOnlyOwn]_vars

\* A caller asked for another user's existing record while the owner has
\* a write in flight.
C1_Witness ==
    /\ Authenticated
    /\ last.op = "get"
    /\ last.standing = "foreign"
    /\ \E p \in Procs : pc[p] \in {"update_commit", "delete_commit"}

\* C2: Get, Update and Delete on an id owned by another user end exactly
\* as they do on an id that holds no record: the one 404 "Task not found"
\* outcome, so existence is not revealed.
C2_ForeignLooksAbsent ==
    (/\ Authenticated
     /\ last.op \in {"get", "update", "delete"}
     /\ last.standing \in {"foreign", "absent"}) => last.resp = TaskNotFound

C2_Witness ==
    /\ Authenticated
    /\ last.op = "update"
    /\ last.standing = "foreign"
    /\ last.resp = TaskNotFound

OneUserPerEmail ==
    \A u, v \in users : Normalised(u.email) = Normalised(v.email) => u = v

UsersKept == \A u \in users : u \in users'

RegisteredOnce ==
    (last'.op = "register" /\ last = NoEvent /\ last'.resp.status = 201)
        => /\ ~Registered(users, last'.email)
           /\ Cardinality(users') = Cardinality(users) + 1

\* C3: of registrations whose e-mails normalise to the same value, racing
\* or not, at most one succeeds: the store never holds two users for one
\* normalised e-mail, a stored user is never replaced, and a registration
\* succeeds only when no user had that e-mail.
C3_UniqueEmail == [](OneUserPerEmail) /\ [][UsersKept /\ RegisteredOnce]_vars

\* The loser of a race: its duplicate check passed, its insert was refused.
C3_Witness ==
    /\ last.op = "register"
    /\ last.taken
    /\ last.resp.status \notin {400, 422}
    /\ Cardinality(users) = 1

EmailAlreadyRegistered == HTTPException(400, "Email already registered")

\* C4: a registration with a well-formed body that finds its normalised
\* e-mail taken, as the loser of a race or as a retry, ends with 400
\* "Email already registered" and with no other kind of failure.
C4_LoserGetsAlreadyExists ==
    (last.op = "register" /\ last.taken /\ last.resp.status # 422)
        => last.resp = EmailAlreadyRegistered

PassesCheckOnlyIfFree ==
    \A p \in Procs :
        (pc[p] = "idle" /\ pc'[p] = "register_commit") => ~Registered(users, loc'[p].raw)

RefusalLeavesStore ==
    (last = NoEvent /\ last'.op = "register" /\ Registered(users, last'.email)
       /\ last'.resp.status # 422
       /\ \A p \in Procs : pc[p] # "register_commit")
        => last'.resp = EmailAlreadyRegistered /\ users' = users

FirstIsStored ==
    \A p \in Procs :
        (pc[p] = "register_commit" /\ pc'[p] = "idle" /\ ~Registered(users, loc[p].raw))
            => /\ last'.resp.status = 201
               /\ \E u \in users' \ users :
                    /\ u.email = Normalised(loc[p].raw)
                    /\ last'.resp.body.email = u.email

\* C5: of two well-formed registrations, one after the other, whose
\* e-mails differ only in letter case, the first is stored under the
\* lower-cased e-mail and the second ends with 400 "Email already
\* registered" and stores nothing.
C5_CaseInsensitiveDuplicate ==
    /\ [](\A u \in users : u.email = Lower(u.email))
    /\ [][PassesCheckOnlyIfFree /\ RefusalLeavesStore /\ FirstIsStored]_vars

\* The second call spelled the stored e-mail in another case.
C5_Witness ==
    /\ last.op = "register"
    /\ last.resp = EmailAlreadyRegistered
    /\ Cardinality(users) = 1
    /\ \E u \in users : u.email # last.email /\ u.email = Lower(last.email)

\* The plaintext a stored hash was made from.
PlainOf(hashed_password) == hashed_password.digest[2]

WrongPassword ==
    \E u \in users : Normalised(u.email) = Normalised(last.email)
                       /\ PlainOf(u.hashed_password) # last.password

\* C6: a login with a registered e-mail and a wrong password and a login
\* with an unregistered e-mail end with the same status and payload,
\* 401 "Invalid credentials".
C6_LoginFailuresAlike ==
    (last.op = "login" /\ (~last.known \/ WrongPassword)) => last.resp = InvalidCredentials

C6_Witness ==
    /\ last.op = "login"
    /\ last.known
    /\ WrongPassword
    /\ last.resp = InvalidCredentials

\* C7: every failure of the identity resolver, whatever its cause, is the
\* one outcome 401 "Unauthorized".
C7_OneUnauthorizedOutcome ==
    (last.op = "resolve" /\ ~last.ident.ok) => last.resp = Unauthorized

Bearer(header) ==
    header.present /\ header.credentials # Empty /\ SchemeLower(header.scheme) = "bearer"

\* exp read as the number of seconds it denotes, if it denotes one
ExpiredAt(token, t) ==
    /\ token.kind = "jws"
    /\ "exp" \in DOMAIN token.payload
    /\ \/ token.payload.exp.type = "int" /\ token.payload.exp.val < t
       \/ token.payload.exp.type = "str" /\ ParseInt(token.payload.exp.val).ok
            /\ ParseInt(token.payload.exp.val).val < t

\* C8: a bearer token that is malformed, not signed with the configured
\* secret and algorithm, or past its expiry is refused, each time with
\* the same 401 "Unauthorized"; an accepted token was signed with the
\* configured secret and algorithm and is not past its expiry.
C8_VerifyRejects ==
    (last.op = "resolve" /\ Bearer(last.header)) =>
        LET token == last.header.credentials
        IN  /\ (\/ token.kind # "jws"
                \/ token.key # JWT_SECRET_KEY
                \/ token.alg # JWT_ALGORITHM
                \/ ExpiredAt(token, last.at)) => last.ident = [ok |-> FALSE, resp |-> Unauthorized]
            /\ last.ident.ok => /\ token.kind = "jws"
                                /\ token.key = JWT_SECRET_KEY
                                /\ token.alg = JWT_ALGORITHM
                                /\ ~ExpiredAt(token, last.at)

\* An expired token with a good signature and a usable subject was refused.
C8_Witness ==
    /\ last.op = "resolve"
    /\ Bearer(last.header)
    /\ last.header.credentials.kind = "jws"
    /\ last.header.credentials.key = JWT_SECRET_KEY
    /\ last.header.credentials.alg = JWT_ALGORITHM
    /\ Claim(last.header.credentials.payload, "sub") = PyStr(<<"1">>)
    /\ ExpiredAt(last.header.credentials, last.at)
    /\ last.ident = [ok |-> FALSE, resp |-> Unauthorized]

ExpiredTokenRefused ==
    (last.op \in TaskOps /\ Bearer(last.header) /\ ExpiredAt(last.header.credentials, last.at))
        => last.ident = [ok |-> FALSE, resp |-> Unauthorized]

IssuedOnlyByLogin ==
    \A token \in wallet' \ wallet :
        /\ last'.op = "login"
        /\ token.payload.iat = PyInt(now)
        /\ token.payload.exp = PyInt(now + JWT_EXPIRY_HOURS * 3600)

Accepts(token, t) == \E ident \in get_current_user_id(Header("Bearer", token), t) : ident.ok

StaysRefused ==
    \A token \in wallet :
        (ExpiredAt(token, now) /\ ~Accepts(token, now)) => ~Accepts(token, now')

\* C9: every protected request resolves the identity from its token at
\* that moment: a request that presents a token after its expiry is
\* answered 401 "Unauthorized" even if the token was accepted before, a
\* token's expiry is fixed when login issues it, and a token refused as
\* expired is refused from then on.
C9_ExpiryForcesReauthentication ==
    /\ [](ExpiredTokenRefused)
    /\ [][wallet \subseteq wallet' /\ IssuedOnlyByLogin /\ StaysRefused]_vars

\* A token that login issued is refused once its expiry has passed.
C9_Witness ==
    /\ last.op = "list"
    /\ Bearer(last.header)
    /\ last.header.credentials \in wallet
    /\ ExpiredAt(last.header.credentials, last.at)
    /\ last.ident = [ok |-> FALSE, resp |-> Unauthorized]

MaxRoundTripId == 120

RoundTrip ==
    \A n \in 1..MaxRoundTripId :
        get_current_user_id(Header("Bearer", create_access_token(n, <<"a">>, now)), now)
            = {[ok |-> TRUE, user_id |-> n]}

\* C10: the token of a successful login of user U has subject str(U.id)
\* and U's stored e-mail, and until its expiry the identity resolver maps
\* it to exactly the integer U.id.
C10_TokenNamesItsUser ==
    /\ RoundTrip
    /\ (last.op = "login" /\ last.resp.status = 200) =>
          \E u \in users :
            LET token == last.resp.body.access_token
            IN  /\ u.email = Normalised(last.email)
                /\ token.payload.sub = PyStr(Str(u.id))
                /\ token.payload.email = PyStr(u.email)
                /\ \A t \in {token.payload.iat.val, token.payload.exp.val} :
                     get_current_user_id(Header("Bearer", token), t)
                        = {[ok |-> TRUE, user_id |-> u.id]}

C10_Witness ==
    /\ last.op = "login"
    /\ last.resp.status = 200
    /\ last.at > 0
    /\ last.email # Normalised(last.email)
    /\ \E u \in users : u.email = Normalised(last.email)

\* The same token with another e-mail claim (or none), signed alike.
WithEmail(token, email) ==
    [token EXCEPT !.payload =
        [name \in (DOMAIN token.payload \ {"email"})
                     \cup (IF email = None THEN {} ELSE {"email"}) |->
            IF name = "email" THEN email ELSE token.payload[name]]]

EmailClaims == {None, PyStr(<<>>), PyStr(<<"a">>), PyStr(<<"b">>), PyInt(2)}

\* Every token that differs from a client's token in the e-mail claim
\* only is resolved exactly as that token is.
TwinsResolveAlike ==
    \A token \in wallet, email \in EmailClaims :
        get_current_user_id(Header("Bearer", WithEmail(token, email)), now)
            = get_current_user_id(Header("Bearer", token), now)

\* The handler is called with the integer the subject claim denotes.
SubjectDecides ==
    (last.op \in TaskOps /\ last.ident.ok) =>
        last.ident.user_id = ParseInt(last.header.credentials.payload.sub.val).val

\* What a handler is given is what resolving any e-mail twin of the
\* presented token gives.
ServedAsTwin ==
    (last.op \in TaskOps /\ Bearer(last.header) /\ last.header.credentials \in wallet) =>
        \A twin \in wallet :
            twin.payload.sub = last.header.credentials.payload.sub
                => last.ident \in get_current_user_id(Header("Bearer", twin), last.at)

\* C11: authorization depends on the subject claim only: validly signed,
\* unexpired tokens with one subject and different e-mail claims resolve
\* to the same caller in every state, the handler receives nothing but
\* that caller, and what a request returns or changes belongs to the user
\* its subject names, whoever its e-mail claim names.
C11_SubjectAloneAuthorizes ==
    /\ [](TwinsResolveAlike /\ SubjectDecides /\ ServedAsTwin /\ ReturnsOnlyOwn)
    /\ [][MutatesOnlyOwn]_vars

\* The token with the first user's subject and the second user's e-mail
\* asked for a record of the second user.
C11_Witness ==
    /\ Authenticated
    /\ last.op \in {"get", "update", "delete"}
    /\ last.header.credentials.payload.sub = PyStr(Str(UserA.id))
    /\ last.header.credentials.payload.email = PyStr(UserB.email)
    /\ last.standing = "foreign"
    /\ last.resp = TaskNotFound

\* The stored user a login names and whose password it knows.
Matches(u, raw, password) ==
    /\ u.email = Strip(Lower(raw))
    /\ verify_password(password, u.hashed_password)

\* C12: a login succeeds, returning a bearer token for 24 hours, exactly
\* when its e-mail, lower-cased and trimmed, is the e-mail of a stored
\* user and its password verifies against that user's hash; every other
\* login ends with 401 "Invalid credentials".  So a login that spells a
\* registered e-mail in another letter case, with the right password,
\* succeeds.
C12_LoginSucceedsIff ==
    last.op = "login" =>
        /\ last.resp.status = 200 <=> \E u \in users : Matches(u, last.email, last.password)
        /\ last.resp.status = 200 =>
              /\ last.resp.body.token_type = "Bearer"
              /\ last.resp.body.expires_in = JWT_EXPIRY_HOURS * 3600
              /\ \E u \in users :
                    /\ Matches(u, last.email, last.password)
                    /\ last.resp.body.access_token = create_access_token(u.id, u.email, last.at)
        /\ last.resp.status # 200 => last.resp = InvalidCredentials

\* A registered user logged in under an upper-case spelling of the e-mail.
C12_Witness ==
    /\ last.op = "login"
    /\ last.resp.status = 200
    /\ last.email # Lower(last.email)
    /\ \E u \in users : Matches(u, last.email, last.password)

Created == last.op = "create" /\ last.resp.status = 201

\* The record a successful Create answered with is stored, under an id no
\* other record has, for the caller the token resolved to.
StoredForCaller ==
    Created =>
        \E task \in tasks :
            /\ TaskResponse(task) = last.resp.body
            /\ \A t \in tasks : t.id = task.id => t = task
            /\ last.ident \in get_current_user_id(last.header, last.at)
            /\ task.user_id = last.ident.user_id
            /\ task.title = last.body.title
            /\ task.description = Field(last.body, "description", None)
            /\ task.status = Field(last.body, "status", PENDING)

\* Create adds one record and touches no other; the new id is one the
\* table never held.
AddsOneRecord ==
    (last = NoEvent /\ last'.op = "create" /\ last'.resp.status = 201) =>
        /\ tasks \subseteq tasks'
        /\ Cardinality(tasks' \ tasks) = 1
        /\ \A task \in tasks' \ tasks :
              /\ task.id = last'.task_id
              /\ task.id > task_seq
              /\ \A t \in tasks : t.id # task.id

\* C13: Create stores one new record owned by the caller the token
\* resolved to, also when the body names another owner or an id; the id
\* comes from the table and differs from the id of every record present;
\* the status is "pending" when the body carries none.
C13_CreateAssignsOwnerAndId == [](StoredForCaller) /\ [][AddsOneRecord]_vars

\* A second record was created from a body that names another user as
\* owner and an id that is already taken.
C13_Witness ==
    /\ Created
    /\ Cardinality(tasks) = 2
    /\ "user_id" \in DOMAIN last.body
    /\ last.body.user_id.val # last.ident.user_id
    /\ \E t \in tasks : t.id = last.body.id.val /\ t.id # last.task_id
    /\ last.resp.body.user_id = last.ident.user_id

\* C14: List answers with exactly the records stored for the caller at
\* that moment, each once: none of another owner, none that was deleted.
C14_ListIsExactlyOwned ==
    (last.op = "list" /\ last.resp.status = 200) =>
        LET rows == last.resp.body.tasks
        IN  /\ {rows[i] : i \in DOMAIN rows}
                  = {TaskResponse(t) : t \in {t \in tasks : t.user_id = last.ident.user_id}}
            /\ \A i, j \in DOMAIN rows : rows[i].id = rows[j].id => i = j
            /\ \A i \in DOMAIN rows : \E t \in tasks : t.id = rows[i].id

\* The caller's one record was listed while the table also holds a record
\* of the other user.
C14_Witness ==
    /\ last.op = "list"
    /\ last.resp.status = 200
    /\ Len(last.resp.body.tasks) = 1
    /\ Cardinality(tasks) = 2

\* C15: List answers newest-created-first: of two records of the caller
\* the one whose Create came later (it has the greater id) stands before
\* the other, also when both were created at one clock reading.
C15_NewestCreatedFirst ==
    (last.op = "list" /\ last.resp.status = 200) =>
        \A i, j \in DOMAIN last.resp.body.tasks :
            i < j => last.resp.body.tasks[i].id > last.resp.body.tasks[j].id

\* The same, for records created at different clock readings only.
OrderedWhereClockDiffers ==
    (last.op = "list" /\ last.resp.status = 200) =>
        \A i, j \in DOMAIN last.resp.body.tasks :
            (i < j /\ last.resp.body.tasks[i].created_at # last.resp.body.tasks[j].created_at)
                => last.resp.body.tasks[i].id > last.resp.body.tasks[j].id

\* Worker p ends an Update with success in this step.
UpdateSucceeds(p) ==
    pc[p] = "update_commit" /\ pc'[p] = "idle" /\ last'.resp.status = 200

Row(T, id) == CHOOSE t \in T : t.id = id

\* The bodies the request a handler was called with can have come from.
BodiesOf(request) ==
    {body \in UpdateBodies :
        /\ TaskUpdateRequest_validate(body).ok
        /\ TaskUpdateRequest_validate(body).request = request}

UpdatableFields == {"title", "description", "status"}

AppliesSupplied ==
    \A p \in Procs :
        UpdateSucceeds(p) =>
            \A body \in BodiesOf(loc[p].request), f \in UpdatableFields :
                Row(tasks', loc[p].task.id)[f]
                    = IF f \in DOMAIN body THEN body[f] ELSE Row(tasks, loc[p].task.id)[f]

\* C16: a successful Update by the owner leaves each of title, description
\* and status equal to the value the body supplies for it, null included,
\* and unchanged when the body omits it.
C16_UpdateAppliesSupplied == [][AppliesSupplied]_vars

\* The same, for the fields supplied with a value other than null.
AppliesSuppliedValues ==
    \A p \in Procs :
        UpdateSucceeds(p) =>
            \A body \in BodiesOf(loc[p].request), f \in UpdatableFields :
                Row(tasks', loc[p].task.id)[f]
                    = IF f \in DOMAIN body /\ body[f] # None THEN body[f]
                      ELSE Row(tasks, loc[p].task.id)[f]

UpdateAppliesSuppliedValues == [][AppliesSuppliedValues]_vars

\* A record that stays in the table keeps its owner and its creation time.
KeepsOrigin ==
    \A t \in tasks, u \in tasks' :
        u.id = t.id => u.user_id = t.user_id /\ u.created_at = t.created_at

\* A successful Update, whatever its body, leaves one record under the id,
\* stamped with the clock reading of the update, and answers with it.
StampsUpdate ==
    \A p \in Procs :
        UpdateSucceeds(p) =>
            LET id == loc[p].task.id
            IN  /\ \E t \in tasks : t.id = id
                /\ Cardinality({u \in tasks' : u.id = id}) = 1
                /\ Row(tasks', id).updated_at = now
                /\ last'.resp.body = TaskResponse(Row(tasks', id))
                /\ \A t \in tasks : t.id # id => t \in tasks'

\* C17: however often a record is updated, and whatever the bodies carry,
\* its id, owner and creation time stay as Create set them, and every
\* successful Update, also one without any field, sets the update time to
\* the current clock reading.
C17_UpdateKeepsOriginStampsTime == [][KeepsOrigin /\ StampsUpdate]_vars

\* A record was updated at a later clock reading by a request that can
\* have carried another owner, id and creation time in its body.
C17_Witness ==
    /\ last.op = "update"
    /\ last.resp.status = 200
    /\ last.resp.body.updated_at = now
    /\ last.resp.body.created_at < now
    /\ last.resp.body.user_id = last.ident.user_id
    /\ \E body \in UpdateBodies :
          /\ {"user_id", "id", "created_at"} \subseteq DOMAIN body
          /\ body.user_id.val # last.resp.body.user_id
          /\ body.id.val # last.resp.body.id
          /\ body.created_at.val # last.resp.body.created_at
          /\ body.title = last.resp.body.title

\* The id was handed out and no record holds it: its record was deleted.
Gone(id) == id \in 1..task_seq /\ ~\E t \in tasks : t.id = id

\* A Delete that found the caller's record answers 204 and the record is
\* not in the table afterwards.
DeleteRemoves ==
    (Authenticated /\ last.op = "delete" /\ last.standing = "own") =>
        last.resp = [status |-> 204] /\ Gone(last.task_id)

\* Whatever happens next, a deleted id holds no record again.
StaysGone == \A id \in TaskIds : Gone(id) => Gone(id)'

\* A well-formed Get, Update or Delete of a deleted id, by either user,
\* is answered "Task not found" and changes nothing.
NotFoundOnceGone ==
    (/\ last = NoEvent
     /\ last'.op \in {"get", "update", "delete"}
     /\ last'.ident.ok
     /\ last'.resp.status # 422
     /\ Gone(last'.task_id)) => last'.resp = TaskNotFound /\ tasks' = tasks

\* C18: Delete by the owner of a stored record succeeds and removes it;
\* from then on every Get, Update and Delete of that id by any caller is
\* answered "Task not found", and no operation, a later Create included,
\* puts a record under that id again.
C18_DeleteIsPermanent == [](DeleteRemoves) /\ [][StaysGone /\ NotFoundOnceGone]_vars

\* The owner repeated the Delete after a later Create had stored a record
\* under a new id.
C18_Witness ==
    /\ Authenticated
    /\ last.op = "delete"
    /\ last.resp = TaskNotFound
    /\ Gone(last.task_id)
    /\ \E t \in tasks : t.id > last.task_id /\ t.user_id = last.ident.user_id

\* The record is the loaded one with every field of the request set and
\* the update time stamped.
WhollyUpdated(row, loaded, request, t) ==
    /\ row.id = loaded.id
    /\ row.user_id = loaded.user_id
    /\ row.created_at = loaded.created_at
    /\ row.updated_at = t
    /\ \A f \in UpdatableFields :
          row[f] = IF request[f] # None THEN request[f] ELSE loaded[f]

\* The commit of an Update whose record a Delete has removed stores
\* nothing; the commit of one whose record still stands as it was loaded
\* stores the whole update.
UpdateAllOrNothing ==
    \A p \in Procs :
        (pc[p] = "update_commit" /\ pc'[p] = "idle") =>
            LET loaded == loc[p].task
            IN  IF ~\E t \in tasks : t.id = loaded.id
                THEN tasks' = tasks /\ last'.resp.status # 200
                ELSE loaded \in tasks =>
                        \E row \in tasks' :
                            /\ WhollyUpdated(row, loaded, loc[p].request, now)
                            /\ tasks' = (tasks \ {loaded}) \cup {row}

\* The commit of a Delete leaves no record under the id, whether or not
\* an Update was applied to it in between, and touches no other record.
DeleteCommitRemoves ==
    \A p \in Procs :
        (pc[p] = "delete_commit" /\ pc'[p] = "idle") =>
            tasks' = {t \in tasks : t.id # loc[p].task.id}

\* C19: when a Delete and an Update of one record by its owner overlap,
\* the table ends with no record under the id or with the record carrying
\* the whole update and its time stamp: an update is never stored in
\* part, and the Update never puts back a record the Delete removed.
C19_DeleteUpdateRace == [][UpdateAllOrNothing /\ DeleteCommitRemoves /\ StaysGone]_vars

\* The Delete committed between the Update's lookup and its commit.
C19_Witness ==
    /\ last.op = "update"
    /\ last.standing = "own"
    /\ last.resp.status # 200
    /\ Gone(last.task_id)

\* Validation failure, authentication failure, duplicate identity, not
\* found: the answers that refuse a request.
Refused(resp) == resp.status \in {400, 401, 403, 404, 422}

RefusalChangesNothing ==
    (/\ last = NoEvent
     /\ last'.op \in {"register", "login", "create", "get", "update", "delete"}
     /\ Refused(last'.resp))
        => /\ users' = users
           /\ user_seq' = user_seq
           /\ tasks' = tasks
           /\ task_seq' = task_seq
           /\ pc' = pc

\* C20: a Register, Login, Create, Get, Update or Delete that ends in a
\* validation failure, an authentication failure, a duplicate e-mail or
\* "not found" leaves the stored users and the stored tasks exactly as
\* they were, with nothing of the request left to be done.
C20_RefusalHasNoEffect == [][RefusalChangesNothing]_vars

\* A user was refused the removal of the other user's record.
C20_Witness ==
    /\ Authenticated
    /\ last.op = "delete"
    /\ last.standing = "foreign"
    /\ Refused(last.resp)
    /\ \E t \in tasks : t.id = last.task_id

(***************************************************************************)
(* C21: token lifetime                                                     *)
(***************************************************************************)
LoginSucceeded == last.op = "login" /\ last.resp.status = 200

\* C21: the expires_in of a successful login is the configured number of
\* hours times 3600, and it is the difference between the exp claim and
\* the iat claim of the token returned in the same response.
C21_ExpiresInIsTokenLifetime ==
    LoginSucceeded =>
        LET body == last.resp.body
            payload == body.access_token.payload
        IN  /\ body.expires_in = JWT_EXPIRY_HOURS * 3600
            /\ payload.iat.type = "int" /\ payload.exp.type = "int"
            /\ body.expires_in = payload.exp.val - payload.iat.val

\* A login that succeeds after the clock has moved.
C21_Witness ==
    /\ LoginSucceeded
    /\ last.at > 0
    /\ last.resp.body.access_token.payload.iat.val = last.at

(***************************************************************************)
(* The credential hasher on its own (auth/password.py)                     *)
(***************************************************************************)
RECURSIVE Repeat(_, _)
Repeat(c, n) == IF n = 0 THEN "" ELSE c \o Repeat(c, n - 1)

\* Plaintexts the registration schema accepts (8 to 128 characters): two
\* short ones, one of exactly 72 bytes, and two that continue it.
HasherInputs ==
    Passwords \cup {Repeat("a", 72), Repeat("a", 72) \o "b", Repeat("a", 72) \o "c"}

\* The hasher is called with nothing stored; the caller keeps what hash
\* returned, together with the plaintext it passed.
InitHasher ==
    /\ disk = NoDisk
    /\ storage = NoStorage
    /\ users = {}
    /\ user_seq = 0
    /\ tasks = {}
    /\ task_seq = 0
    /\ writes = 0
    /\ now = 0
    /\ pc = [p \in Procs |-> "idle"]
    /\ loc = [p \in Procs |-> Idle]
    /\ last = NoEvent
    /\ wallet = {}

\* hash_password(password)
hash_call ==
    /\ UNCHANGED cli
    /\ last = NoEvent
    /\ Cardinality(wallet) < MaxWallet
    /\ \E password \in HasherInputs :
         \E hashed \in hash_password(password) :
            /\ last' = [op |-> "hash", plain |-> password, hashed |-> hashed,
                        earlier |-> wallet]
            /\ wallet' = wallet \cup {[plain |-> password, hashed |-> hashed]}
    /\ UNCHANGED <<users, user_seq, tasks, task_seq, writes, now, pc, loc>>

\* verify_password(plain_password, hashed_password) on a kept hash
verify_call ==
    /\ UNCHANGED cli
    /\ last = NoEvent
    /\ \E plain_password \in HasherInputs, kept \in wallet :
         last' = [op |-> "verify", plain |-> plain_password, of |-> kept.plain,
                  hashed |-> kept.hashed,
                  result |-> verify_password(plain_password, kept.hashed)]
    /\ UNCHANGED <<users, user_seq, tasks, task_seq, writes, now, pc, loc, wallet>>

NextHasher ==
    \/ hash_call
    \/ verify_call
    \/ Deliver

SpecHasher == InitHasher /\ [][NextHasher]_vars

(***************************************************************************)
(* C22: verify accepts exactly the hashed plaintext                        *)
(***************************************************************************)
\* C22: for all plaintexts p and q that registration accepts, verify(q,
\* hash(p)) is true if and only if q = p; a password that differs from the
\* hashed one only after its first 72 bytes does not verify.
C22_VerifyIffEqual ==
    last.op = "verify" => (last.result <=> last.plain = last.of)

\* What the hasher does guarantee: verify(q, hash(p)) is true if and only
\* if q and p agree on their first 72 bytes.
VerifyIffSameSecret ==
    last.op = "verify" => (last.result <=> Secret(last.plain) = Secret(last.of))

\* A verify of a plaintext against the hash of one that is longer than 72
\* bytes and differs from it in byte 73.
LongVerified ==
    /\ last.op = "verify"
    /\ Len(last.of) > BcryptSecretBytes
    /\ last.plain # last.of
    /\ Secret(last.plain) = Secret(last.of)

(***************************************************************************)
(* C23: salts                                                              *)
(***************************************************************************)
Hashed == last.op = "hash"

SubmittedPasswords == Passwords \cup {ShortPassword}

IsPassword(v) == v.type = "str" /\ v.val \in SubmittedPasswords

\* A 422 whose failure entries give back a submitted password, as the
\* failed input itself or inside the body that failed.
EchoesPassword(resp) ==
    /\ resp.status = 422
    /\ \E e \in resp.detail :
          \/ IsPassword(e.input)
          \/ /\ e.input.type = "dict"
             /\ \E k \in DOMAIN e.input.val : IsPassword(e.input.val[k])

\* A response body with a field for the password or its hash.
NamesPassword(resp) ==
    /\ "body" \in DOMAIN resp
    /\ last.op # "list"
    /\ DOMAIN resp.body \cap {"password", "hashed_password"} # {}

RegisterSucceeded == last.op = "register" /\ last.resp.status = 201

\* C24: no response of any operation, success or failure, contains a
\* plaintext password or a stored hash, and a successful Register response
\* consists of exactly id, email and created_at.
C24_NoPasswordInResponse ==
    last # NoEvent =>
        /\ ~EchoesPassword(last.resp)
        /\ ~NamesPassword(last.resp)
        /\ RegisterSucceeded => DOMAIN last.resp.body = {"id", "email", "created_at"}

\* What holds: every response other than a schema failure is free of
\* passwords and hashes, and a successful Register response consists of
\* exactly id, email and created_at.
SuccessesAndRefusalsHidePassword ==
    last # NoEvent =>
        /\ ~NamesPassword(last.resp)
        /\ EchoesPassword(last.resp) => last.op = "register"
        /\ RegisterSucceeded => DOMAIN last.resp.body = {"id", "email", "created_at"}

(***************************************************************************)
(* C25: schema failures and identity                                       *)
(***************************************************************************)
\* The bodies a client can send to an operation that its schema refuses.
InvalidBodies(op) ==
    IF op = "create" THEN {b \in CreateBodies : ~TaskCreateRequest_validate(b).ok}
    ELSE IF op = "update" THEN {b \in UpdateBodies : ~TaskUpdateRequest_validate(b).ok}
    ELSE {}

\* A request to an operation with a body whose credential was refused.  The
\* handlers answer it without reading the body, so the response is the
\* same for every body the request may have carried.
IdentityRefused == last.op \in {"create", "update"} /\ ~last.ident.ok

OutOfRange(password) == Len(password) < 8 \/ Len(password) > 128

\* A Register request with an out-of-range password is answered 422, also
\* when its email is already registered.
RegisterValidatesFirst ==
    (last.op = "register" /\ OutOfRange(last.password)) => last.resp.status = 422

\* C25: invalid input is answered with a validation failure before
\* identity resolution and before store access: a request to a protected
\* operation with an invalid body and a missing or invalid credential is
\* answered 422, and so is a Register request with an out-of-range
\* password, even when its email is already registered.
C25_ValidationBeforeIdentity ==
    /\ IdentityRefused => \A body \in InvalidBodies(last.op) : last.resp.status = 422
    /\ RegisterValidatesFirst

\* What holds: among requests whose credential is accepted, an invalid
\* body is answered 422 before the store is read, and Register validates
\* before it looks the email up.
ValidationBeforeStore ==
    /\ (last.op = "create" /\ last.ident.ok /\ last.body \in InvalidBodies("create"))
          => last.resp.status = 422 /\ last.task_id = 0
    /\ (last.op = "update" /\ last.resp.status = 422) => last.standing = "none"
    /\ RegisterValidatesFirst

\* A Register request with a password that is too short for an address
\* that is already registered.
ShortPasswordForTakenEmail ==
    last.op = "register" /\ last.taken /\ OutOfRange(last.password)

(***************************************************************************)
(* C26: the two timestamps of a record                                     *)
(***************************************************************************)
UpdatedNotBeforeCreated == \A t \in tasks : t.updated_at >= t.created_at

\* C26: right after a successful Create the created and the updated
\* timestamp of the new record are equal, both being the one current time
\* of the Create, and in every reachable state the updated timestamp of
\* every record is not earlier than its created timestamp.
C26_TimestampsEqualAtCreate ==
    /\ Created => /\ last.resp.body.created_at = last.resp.body.updated_at
                  /\ last.resp.body.created_at = last.at
    /\ UpdatedNotBeforeCreated

\* What holds: the created timestamp of a new record is the clock reading
\* at which Create began, and its updated timestamp is that or a later
\* reading.
CreateStampsInOrder ==
    /\ Created => /\ last.resp.body.created_at = last.at
                  /\ last.resp.body.updated_at \in ClockReads(last.at)
    /\ UpdatedNotBeforeCreated

(***************************************************************************)
(* Requests racing on one record                                           *)
(***************************************************************************)
\* A record the first user created at time 0.
TaskOne ==
    [id |-> 1, title |-> PyStr("t1"), description |-> PyStr("d1"), status |-> PENDING,
     user_id |-> UserA.id, created_at |-> 0, updated_at |-> 0]

\* The two users logged in and the first user's record stored: the state
\* reached by two registrations, two logins and a create.
InitRace ==
    /\ disk = NoDisk
    /\ storage = NoStorage
    /\ users = {UserA, UserB}
    /\ user_seq = 2
    /\ tasks = {TaskOne}
    /\ task_seq = 1
    /\ writes = 0
    /\ now = Horizon
    /\ pc = [p \in Procs |-> "idle"]
    /\ loc = [p \in Procs |-> Idle]
    /\ last = NoEvent
    /\ wallet = {create_access_token(UserA.id, UserA.email, Horizon),
                 create_access_token(UserB.id, UserB.email, Horizon)}

\* Workers serving Update requests at the same time.
NextUpdates ==
    \/ \E p \in Procs : update_task(p)
    \/ \E p \in Procs : update_task_commit(p)
    \/ Deliver

SpecUpdates == InitRace /\ [][NextUpdates]_vars

(***************************************************************************)
(* C27: concurrent Updates                                                 *)
(***************************************************************************)
\* When an Update commits, each field its request does not supply keeps
\* the value the store holds at that moment, which another Update may have
\* written after this one read the record; each field it supplies ends
\* with the supplied value or with the value in the store; and a field
\* nobody has written since this Update read the record ends with the
\* supplied value.
NoLostUpdate ==
    \A p \in Procs :
        UpdateSucceeds(p) =>
            LET loaded == loc[p].task
                request == loc[p].request
                stored == Row(tasks, loaded.id)
                final == Row(tasks', loaded.id)
            IN  \A f \in UpdatableFields :
                    /\ request[f] = None => final[f] = stored[f]
                    /\ request[f] # None => final[f] \in {request[f], stored[f]}
                    /\ (request[f] # None /\ stored[f] = loaded[f]) => final[f] = request[f]

\* C27: when two Updates of one record by its owner run concurrently and
\* both succeed, the final record reflects both: a field supplied by
\* either holds a value one of them supplied, a field supplied by one
\* only holds that value, and neither loses its effect to the other
\* writing back what it read before the other committed.
C27_ConcurrentUpdatesMerge == [][NoLostUpdate]_vars

\* An Update that supplied no title has succeeded, and the record has a
\* title other than the one this Update read, next to the description
\* this Update supplied: the title is the one a concurrent Update wrote.
C27_Witness ==
    /\ last.op = "update"
    /\ last.resp.status = 200
    /\ last.request.title = None
    /\ last.request.description = PyStr("d2")
    /\ last.resp.body.description = PyStr("d2")
    /\ last.resp.body.title # last.read.title

\* Workers serving Delete and Get requests at the same time.
NextDeletes ==
    \/ \E p \in Procs : get_task(p)
    \/ \E p \in Procs : delete_task(p)
    \/ \E p \in Procs : delete_task_commit(p)
    \/ Deliver

SpecDeletes == InitRace /\ [][NextDeletes]_vars

(***************************************************************************)
(* C28: concurrent Deletes                                                 *)
(***************************************************************************)
DeleteCommits(p) == pc[p] = "delete_commit" /\ pc'[p] = "idle"

\* A Delete that finishes reports success if the record was still stored
\* when it committed, and NotFound if another Delete had removed it.
OneSuccessPerRecord ==
    \A p \in Procs :
        DeleteCommits(p) =>
            IF \E t \in tasks : t.id = loc[p].task.id
            THEN last'.resp.status = 204
            ELSE last'.resp = TaskNotFound

\* C28: when two Deletes of one stored record by its owner run
\* concurrently, exactly one reports success and the other reports
\* NotFound; both never report success for the one record.
C28_OneDeleteSucceeds == [][OneSuccessPerRecord]_vars

\* What holds: after either Delete has committed the record is gone, and
\* a Delete that begins after that is answered NotFound.
LeavesNoRecord ==
    \A p \in Procs :
        DeleteCommits(p) => ~\E t \in tasks' : t.id = loc[p].task.id

DeletesLeaveNoRecord == [][LeavesNoRecord]_vars

\* Two Deletes of the one record have both passed the lookup.
BothDeletesPending ==
    \A p \in Procs : pc[p] = "delete_commit" /\ loc[p].task.id = TaskOne.id

(***************************************************************************)
(* The interactive prototype (phase-2/phase-1/todo-cli/main.py)            *)
(***************************************************************************)
TASK_FILE == "tasks.json"
DRAFT_FILE == "drafts.json"

\* str(uuid.uuid4()): any of the identifiers, drawn afresh on each call.
Uuids == {PyStr(u) : u \in 1..NumUuids}

\* A file on disk: absent, or holding the list save_data wrote.
Absent == [exists |-> FALSE, data |-> <<>>]

load_data(file) == IF disk[file].exists THEN disk[file].data ELSE <<>>

save_data(d, file, data) == [d EXCEPT ![file] = [exists |-> TRUE, data |-> data]]

\* [x for x in xs if x["id"] != selected]
RECURSIVE WithoutId(_, _)
WithoutId(xs, selected) ==
    IF xs = <<>> THEN <<>>
    ELSE IF Head(xs).id = selected THEN WithoutId(Tail(xs), selected)
    ELSE <<Head(xs)>> \o WithoutId(Tail(xs), selected)

\* next((x for x in xs if x["id"] == selected), None)
FirstWithId(xs, selected) ==
    IF \E i \in DOMAIN xs : xs[i].id = selected
    THEN xs[CHOOSE i \in DOMAIN xs :
               xs[i].id = selected /\ \A j \in DOMAIN xs : xs[j].id = selected => i <= j]
    ELSE None

IdsOf(xs) == {xs[i].id : i \in DOMAIN xs}

\* What a radiolist dialog returns: one of its values, or None when the
\* user cancels it.
Radio(values) == values \cup {None}

Info(op, text) == [op |-> op, shown |-> text]

\* add_task, lines 34-56
main_add_task ==
    /\ \E title \in {"", "t1"}, choice \in Radio({PyStr("save"), PyStr("draft")}),
          id \in Uuids :
         LET task == [id |-> id, title |-> title, description |-> "", completed |-> FALSE]
             file == IF choice = PyStr("save") THEN TASK_FILE ELSE DRAFT_FILE
         IN  IF title = ""
             THEN last' = Info("add_task", "Title required!") /\ UNCHANGED disk
             ELSE IF choice = None
             THEN last' = [op |-> "add_task", choice |-> choice] /\ UNCHANGED disk
             ELSE /\ Len(load_data(file)) < MaxFileLen
                  /\ disk' = save_data(disk, file, Append(load_data(file), task))
                  /\ last' = [op |-> "add_task", choice |-> choice, task |-> task]
    /\ UNCHANGED <<backend, storage>>

\* update_task, lines 58-81
main_update_task ==
    /\ LET file == load_data(TASK_FILE)
       IN  IF file = <<>>
           THEN last' = Info("update_task", "No tasks found") /\ UNCHANGED disk
           ELSE \E selected \in Radio(IdsOf(file)), new_title \in {"", "t2"} :
                  IF selected = None
                  THEN last' = [op |-> "update_task", selected |-> selected] /\ UNCHANGED disk
                  ELSE LET i == CHOOSE i \in DOMAIN file :
                                   /\ file[i].id = selected
                                   /\ \A j \in DOMAIN file : file[j].id = selected => i <= j
                           written == IF new_title # ""
                                      THEN [file EXCEPT ![i].title = new_title]
                                      ELSE file
                       IN  /\ disk' = save_data(disk, TASK_FILE, written)
                           /\ last' = [op |-> "update_task", selected |-> selected]
    /\ UNCHANGED <<backend, storage>>

\* delete_task, lines 83-96
main_delete_task ==
    /\ LET file == load_data(TASK_FILE)
       IN  IF file = <<>>
           THEN last' = Info("delete_task", "No tasks to delete") /\ UNCHANGED disk
           ELSE \E selected \in Radio(IdsOf(file)) :
                  /\ last' = [op |-> "delete_task", selected |-> selected]
                  /\ IF selected = None
                     THEN UNCHANGED disk
                     ELSE disk' = save_data(disk, TASK_FILE, WithoutId(file, selected))
    /\ UNCHANGED <<backend, storage>>

\* show_all_tasks, lines 98-114: the checkbox dialog returns the ticked
\* ids, or None when it is cancelled.
show_all_tasks ==
    /\ LET file == load_data(TASK_FILE)
       IN  IF file = <<>>
           THEN last' = Info("show_all_tasks", "No tasks") /\ UNCHANGED disk
           ELSE \/ last' = [op |-> "show_all_tasks", ticked |-> FALSE] /\ UNCHANGED disk
                \/ \E selected \in SUBSET IdsOf(file) :
                     /\ disk' = save_data(disk, TASK_FILE,
                                  [i \in DOMAIN file |->
                                     [file[i] EXCEPT !.completed = (file[i].id \in selected)]])
                     /\ last' = [op |-> "show_all_tasks", ticked |-> TRUE]
    /\ UNCHANGED <<backend, storage>>

\* show_drafts, lines 124-152
show_drafts ==
    /\ LET drafts == load_data(DRAFT_FILE)
       IN  IF drafts = <<>>
           THEN last' = Info("show_drafts", "No drafts") /\ UNCHANGED disk
           ELSE \E selected \in Radio(IdsOf(drafts)),
                   action \in Radio({PyStr("save"), PyStr("delete")}) :
                  IF selected = None
                  THEN /\ last' = [op |-> "show_drafts", selected |-> selected, asked |-> FALSE,
                                   action |-> None]
                       /\ UNCHANGED disk
                  ELSE LET draft == FirstWithId(drafts, selected)
                           saved == IF action = PyStr("save")
                                    THEN save_data(disk, TASK_FILE,
                                                   Append(load_data(TASK_FILE), draft))
                                    ELSE disk
                       IN  /\ action = PyStr("save") => Len(load_data(TASK_FILE)) < MaxFileLen
                           /\ disk' = save_data(saved, DRAFT_FILE, WithoutId(drafts, selected))
                           /\ last' = [op |-> "show_drafts", selected |-> selected,
                                       asked |-> TRUE, action |-> action, draft |-> draft]
    /\ UNCHANGED <<backend, storage>>

\* The program started in a directory that holds neither file.
InitDrafts ==
    /\ disk = [file \in {TASK_FILE, DRAFT_FILE} |-> Absent]
    /\ storage = NoStorage
    /\ users = {}
    /\ user_seq = 0
    /\ tasks = {}
    /\ task_seq = 0
    /\ writes = 0
    /\ now = 0
    /\ pc = [p \in Procs |-> "idle"]
    /\ loc = [p \in Procs |-> Idle]
    /\ last = NoEvent
    /\ wallet = {}

\* main_menu, lines 155-184
main_menu ==
    \/ main_add_task
    \/ main_update_task
    \/ main_delete_task
    \/ show_all_tasks
    \/ show_drafts

SpecDrafts == InitDrafts /\ [][main_menu]_vars

(***************************************************************************)
(* C29: drafts leave the drafts file only by choice                        *)
(***************************************************************************)
DraftsShown == last'.op = "show_drafts" /\ "asked" \in DOMAIN last'

\* C29: show_drafts removes a draft from the drafts file only when the
\* user chose to save it, and then the draft is appended to the tasks
\* file, or chose to delete it; when the user cancels the action dialog
\* both files are left as they were.
ExplicitChoiceOnly ==
    DraftsShown =>
        /\ last'.action = PyStr("save") =>
              /\ load_data(TASK_FILE)' = Append(load_data(TASK_FILE), last'.draft)
              /\ load_data(DRAFT_FILE)' = WithoutId(load_data(DRAFT_FILE), last'.selected)
        /\ last'.action = PyStr("delete") =>
              /\ load_data(DRAFT_FILE)' = WithoutId(load_data(DRAFT_FILE), last'.selected)
              /\ load_data(TASK_FILE)' = load_data(TASK_FILE)
        /\ last'.action = None =>
              /\ load_data(DRAFT_FILE)' = load_data(DRAFT_FILE)
              /\ load_data(TASK_FILE)' = load_data(TASK_FILE)

C29_DraftLeavesOnlyByChoice == [][ExplicitChoiceOnly]_vars

\* What holds: the selected draft leaves the drafts file whenever the
\* action dialog was shown, whatever it returned; it is appended to the
\* tasks file exactly when the user chose to save it; and nothing changes
\* when the selection dialog is cancelled.
SelectedDraftAlwaysLeaves ==
    DraftsShown =>
        IF last'.asked
        THEN /\ load_data(DRAFT_FILE)' = WithoutId(load_data(DRAFT_FILE), last'.selected)
             /\ load_data(TASK_FILE)' =
                   IF last'.action = PyStr("save")
                   THEN Append(load_data(TASK_FILE), last'.draft)
                   ELSE load_data(TASK_FILE)
        ELSE /\ load_data(DRAFT_FILE)' = load_data(DRAFT_FILE)
             /\ load_data(TASK_FILE)' = load_data(TASK_FILE)

DraftLeavesWheneverSelected == [][SelectedDraftAlwaysLeaves]_vars

(***************************************************************************)
(* TaskStorage of todo_cli (phase-2/phase-1/todo-cli/src/todo_cli)         *)
(***************************************************************************)
STORAGE_FILE == "~/.todo-cli/tasks.json"

Texts == {"a", "b"}

StorageIds == 1..(MaxNextId + 1)

datetime(t) == [type |-> "datetime", t |-> t]

\* datetime.isoformat() and datetime.fromisoformat(): the text of the
\* instant and its parse; text that is not an instant is a ValueError.
isoformat(dt) == Str(dt.t)

fromisoformat(s) ==
    IF AllDigits(s) THEN [ok |-> TRUE, val |-> datetime(DigitsVal(s, 0))]
    ELSE [ok |-> FALSE, val |-> None]

\* The Task dataclass.
Task(id, description, created_at) ==
    [id |-> id, description |-> description, completed |-> FALSE,
     created_at |-> created_at, completed_at |-> None]

\* A dict keeps its items in insertion order: a sequence of tasks, keyed
\* by their id.
Keys(d) == {d[i].id : i \in DOMAIN d}

DictGet(d, key) ==
    IF key \in Keys(d) THEN d[CHOOSE i \in DOMAIN d : d[i].id = key] ELSE None

\* d[key] = task: a present key keeps its place and takes the new value.
DictSet(d, key, task) ==
    IF key \in Keys(d)
    THEN [i \in DOMAIN d |-> IF d[i].id = key THEN task ELSE d[i]]
    ELSE Append(d, task)

\* del d[key]
RECURSIVE DictDel(_, _)
DictDel(d, key) ==
    IF d = <<>> THEN <<>>
    ELSE IF Head(d).id = key THEN Tail(d)
    ELSE <<Head(d)>> \o DictDel(Tail(d), key)

NoFile == [exists |-> FALSE]

\* lines 32-40: the loop stops at the first entry that raises.
RECURSIVE LoadEntries(_, _)
LoadEntries(entries, loaded) ==
    IF entries = <<>> THEN loaded
    ELSE LET task_data == Head(entries)
             created_at == fromisoformat(task_data.created_at)
             completed_at == IF task_data.completed_at # None
                             THEN fromisoformat(task_data.completed_at.val)
                             ELSE [ok |-> TRUE, val |-> None]
         IN  IF created_at.ok /\ completed_at.ok
             THEN LoadEntries(Tail(entries),
                      DictSet(loaded, task_data.id,
                              [id |-> task_data.id,
                               description |-> task_data.description,
                               completed |-> task_data.completed,
                               created_at |-> created_at.val,
                               completed_at |-> completed_at.val]))
             ELSE loaded

\* _load_tasks taking the next id from the tasks it finds instead of the
\* number the file records.
_load_tasks_next_from_tasks(file) ==
    IF file.exists
    THEN LET loaded == LoadEntries(file.data.tasks, <<>>)
         IN  [k |-> "TaskStorage",
              _tasks |-> loaded,
              _next_id |-> IF loaded = <<>> THEN 1
                           ELSE 1 + (CHOOSE m \in Keys(loaded) :
                                        \A other \in Keys(loaded) : other <= m)]
    ELSE [k |-> "TaskStorage", _tasks |-> <<>>, _next_id |-> 1]

\* _load_tasks, lines 24-42, on the object __init__ has just set up
\* (lines 20-21): no tasks, next id 1.
_load_tasks(file) ==
    IF file.exists
    THEN [k |-> "TaskStorage",
          _tasks |-> LoadEntries(file.data.tasks, <<>>),
          _next_id |-> file.data.next_id]
    ELSE [k |-> "TaskStorage", _tasks |-> <<>>, _next_id |-> 1]

\* _save_tasks, lines 44-64
_save_tasks(self) ==
    [exists |-> TRUE,
     data |-> [next_id |-> self._next_id,
               tasks |-> [i \in DOMAIN self._tasks |->
                            LET task == self._tasks[i]
                            IN  [id |-> task.id,
                                 description |-> task.description,
                                 completed |-> task.completed,
                                 created_at |-> isoformat(task.created_at),
                                 completed_at |-> IF task.completed_at # None
                                                  THEN PyStr(isoformat(task.completed_at))
                                                  ELSE None]]]]

Saved(self) == [disk EXCEPT ![STORAGE_FILE] = _save_tasks(self)]

Live == storage # NoStorage

\* TaskStorage(), lines 12-22: a run of the program builds its object
\* from whatever the file holds.
TaskStorage_init ==
    /\ storage' = _load_tasks(disk[STORAGE_FILE])
    /\ last' = [op |-> "TaskStorage", found |-> disk[STORAGE_FILE].exists]
    /\ UNCHANGED <<backend, disk>>

\* add_task, lines 66-76.  The caller keeps the id of the task returned;
\* the event notes whether the call is the first on a newly built object.
TaskStorage_add_task ==
    /\ Live
    /\ storage._next_id <= MaxNextId
    /\ \E description \in Texts :
         LET task == Task(storage._next_id, description, datetime(now))
             self == [storage EXCEPT !._tasks = DictSet(@, storage._next_id, task),
                                     !._next_id = @ + 1]
         IN  /\ storage' = self
             /\ disk' = Saved(self)
             /\ wallet' = wallet \cup {task.id}
             /\ last' = [op |-> "TaskStorage.add_task", returned |-> task,
                         earlier |-> wallet, reloaded |-> last.op = "TaskStorage"]
    /\ UNCHANGED <<users, user_seq, tasks, task_seq, writes, now, pc, loc>>

\* update_task, lines 86-93
TaskStorage_update_task ==
    /\ Live
    /\ \E task_id \in StorageIds, description \in Texts :
         LET task == DictGet(storage._tasks, task_id)
         IN  IF task # None
             THEN LET self == [storage EXCEPT !._tasks =
                                  DictSet(@, task_id, [task EXCEPT !.description = description])]
                  IN  /\ storage' = self
                      /\ disk' = Saved(self)
                      /\ last' = [op |-> "TaskStorage.update_task", task_id |-> task_id,
                                  returned |-> TRUE]
             ELSE /\ last' = [op |-> "TaskStorage.update_task", task_id |-> task_id,
                              returned |-> FALSE]
                  /\ UNCHANGED cli
    /\ UNCHANGED backend

\* delete_task, lines 95-101
TaskStorage_delete_task ==
    /\ Live
    /\ \E task_id \in StorageIds :
         IF task_id \in Keys(storage._tasks)
         THEN LET self == [storage EXCEPT !._tasks = DictDel(@, task_id)]
              IN  /\ storage' = self
                  /\ disk' = Saved(self)
                  /\ last' = [op |-> "TaskStorage.delete_task", task_id |-> task_id,
                              returned |-> TRUE]
         ELSE /\ last' = [op |-> "TaskStorage.delete_task", task_id |-> task_id,
                          returned |-> FALSE]
              /\ UNCHANGED cli
    /\ UNCHANGED backend

\* complete_task, lines 103-111
TaskStorage_complete_task ==
    /\ Live
    /\ \E task_id \in StorageIds :
         LET task == DictGet(storage._tasks, task_id)
         IN  IF task # None
             THEN LET self == [storage EXCEPT !._tasks =
                                  DictSet(@, task_id,
                                          [task EXCEPT !.completed = TRUE,
                                                       !.completed_at = datetime(now)])]
                  IN  /\ storage' = self
                      /\ disk' = Saved(self)
                      /\ last' = [op |-> "TaskStorage.complete_task", task_id |-> task_id,
                                  returned |-> TRUE]
             ELSE /\ last' = [op |-> "TaskStorage.complete_task", task_id |-> task_id,
                              returned |-> FALSE]
                  /\ UNCHANGED cli
    /\ UNCHANGED backend

\* Empty storage: no file yet and no object built.  The caller holds no
\* id.
InitStorage ==
    /\ disk = [file \in {STORAGE_FILE} |-> NoFile]
    /\ storage = NoStorage
    /\ users = {}
    /\ user_seq = 0
    /\ tasks = {}
    /\ task_seq = 0
    /\ writes = 0
    /\ now = Horizon
    /\ pc = [p \in Procs |-> "idle"]
    /\ loc = [p \in Procs |-> Idle]
    /\ last = NoEvent
    /\ wallet = {}

NextStorage ==
    \/ TaskStorage_init
    \/ TaskStorage_add_task
    \/ TaskStorage_update_task
    \/ TaskStorage_complete_task
    \/ TaskStorage_delete_task

SpecStorage == InitStorage /\ [][NextStorage]_vars

(***************************************************************************)
(* C30: add_task never hands out an id twice                               *)
(***************************************************************************)
Added == last'.op = "TaskStorage.add_task"

\* C30: after any sequence of add_task, update_task, complete_task and
\* delete_task from empty storage, with the object rebuilt from the file
\* at any point, add_task returns an id strictly greater than every id
\* returned before, so no id is reused after a deletion, and the new task
\* takes the place of no task already stored.
AddReturnsFreshId ==
    Added =>
        /\ \A id \in wallet : last'.returned.id > id
        /\ last'.returned.id \notin Keys(storage._tasks)
        /\ \A key \in Keys(storage._tasks) :
              DictGet(storage'._tasks, key) = DictGet(storage._tasks, key)
        /\ DictGet(storage'._tasks, last'.returned.id) = last'.returned

C30_AddTaskIdsStrictlyIncrease == [][AddReturnsFreshId]_vars

\* The highest id so far was deleted, the object was rebuilt from the
\* file, and the next add_task returned the id after it.
C30_Witness ==
    /\ last.op = "TaskStorage.add_task"
    /\ last.reloaded
    /\ last.returned.id - 1 \in last.earlier
    /\ last.returned.id - 1 \notin Keys(storage._tasks)

\* The next id of the object, and the one the file records, stay above
\* every id returned.
NextIdAboveEveryReturned ==
    /\ Live => \A id \in wallet : id < storage._next_id
    /\ disk[STORAGE_FILE].exists => \A id \in wallet : id < disk[STORAGE_FILE].data.next_id

\* Saving and loading give back the object that was saved.
ReloadRestoresObject ==
    (Live /\ disk[STORAGE_FILE].exists) => _load_tasks(disk[STORAGE_FILE]) = storage

====
